---------------------------- MODULE Spec2Model ----------------------------
(***************************************************************************)
(* A model of the suggestion-synthesis and remote-state-reconciliation     *)
(* logic of acrolinx/nextgen-analyzer:                                     *)
(*                                                                         *)
(*   - createCommitSuggestions (hunk-chunking version), with generateDiff  *)
(*     and diffToSuggestionChunksWithPositions                             *)
(*       src/src/services/commit-suggestion-service.ts:19-170              *)
(*   - createPRCommitSuggestions (version with existing-suggestion         *)
(*     reconciliation)                                                     *)
(*       src/src/services/commit-suggestion-service.ts:175-462             *)
(*   - createRewriteBranch / createRewritePullRequest (rewrite service)    *)
(*       src/unnamed/part_001:27-293                                       *)
(*                                                                         *)
(* Text is modelled at the character level: a string is a sequence of      *)
(* one-character strings, so that prefixes, newlines, trimming, splitting  *)
(* and joining are computed as the code computes them.                     *)
(***************************************************************************)
EXTENDS Integers, Sequences, FiniteSets, TLC

VARIABLES
    \* ---- createCommitSuggestions (one analysis result per call) ----
    filePath,      \* result.filePath
    original,      \* what readFileContent(result.filePath) returns ("" = null/empty)
    rewrite,       \* result.rewrite
    parts,         \* the change objects diffLines returned (<<>> before the call)
    suggestions,   \* the CommitSuggestion[] returned
    warnings,      \* number of core.warning calls
    pcS,           \* "start" | "done"
    \* ---- createPRCommitSuggestions and the change request on the host ----
    tokenLogin,    \* the login the host records as author of what the token creates
    prSuggestions, \* suggestionData.suggestions
    reviews,       \* host: the reviews of the change request, in listing order
    comments,      \* host: the review comments of the change request
    nextId,        \* host: the next review / comment id
    pcD,           \* where the current run of createPRCommitSuggestions stands
    calls,         \* the remote calls the current run has issued, in order
    pendingId,     \* existingPendingReviewId (0 = null)
    listed,        \* findExistingSuggestions: reviews.data
    listIdx,       \* findExistingSuggestions: index of the review being read
    existing,      \* existingSuggestions: filePath -> comment id (0 = no entry)
    newSuggestions,\* newSuggestions
    inFlight,      \* updatePromises not yet settled: indices into calls
    dLog,          \* core.info / core.warning / core.error messages of the run (kinds)
    runsDone,      \* number of completed runs
    failedEver,    \* some remote call has failed
    countAfter     \* number of suggestion comments on the host after each run

VARIABLES
    run,           \* per workflow run: the position and locals of the rewrite pipeline
    headSha,       \* the commit of the change request's head branch
    branches,      \* the host's rewrite branches, by name
    pulls,         \* the host's pull requests, in order of creation
    refCreates,    \* the number of createRef calls the host accepted
    runsStarted,   \* the number of pipeline runs started
    returned,      \* what each run returned (an interrupted run: what it had done), kept
                   \* as long as no two runs overlapped and no call failed
    failedR,       \* some remote call of the pipeline failed
    overlapped     \* two runs of the pipeline were in progress at once

VARIABLES
    batchVersion,  \* which createPRCommitSuggestions builds the review:
                   \* "reconcile" | "changedLines" | "wholeFile"
    pendingCreates,\* the suggestions to create (newSuggestions, resp. suggestionData.suggestions)
    reviewCall,    \* the createReview call issued, if any, and its comments
    batchLog,      \* the messages logged while the review is built
    pcB            \* "start" | "done"

VARIABLES
    nameCtx,       \* per workflow run: github.context (issue.number, sha) and the time
    nameOf         \* per workflow run: the branchName it computed (<<>> = not yet)

VARIABLES
    applyFiles,    \* the paths of rewrittenFiles passed to applyRewrittenFiles
    applyIdx,      \* the position of its loop
    applySha,      \* fileSha
    onBranch,      \* the host's blob of each path on the rewrite branch (0 = no file)
    requests,      \* the requests issued, in order; settled: the response has arrived
    pcA            \* "lookup" | "awaitLookup" | "write" | "awaitWrite" | "returned" | "thrown"

VARIABLES
    batchFiles,    \* files.length of the call of analyzeFilesBatch
    fileContents,  \* fileContents.length: the files that could be read
    batchPromise,  \* batchResponse.promise: "none" | "pending" | "resolved" | "rejected"
    progress,      \* batchResponse.progress: completed, failed, total
    progressInterval, \* the timer of setInterval is set and not cleared
    ticks,         \* the number of times the timer's callback has run
    tickedAfterReturn, \* the callback has run after analyzeFilesBatch returned
    analysisResults, \* results.length of the array returned
    pcN            \* "start" | "awaiting" | "returned"

VARIABLES
    repoBranches,  \* the host's branches, as listBranches orders them: name and last commit
    maxAgeDays,    \* the retention window passed to cleanupOldRewriteBranches
    cutoffDate,    \* cutoffDate
    rewriteBranches, \* rewriteBranches
    sweepIdx,      \* the position of the loop in rewriteBranches
    commitDate,    \* commitDate of the branch at sweepIdx
    deletedRefs,   \* the names of the branches the host deleted
    sweepLog,      \* the messages logged
    sweepCalls,    \* the remote calls the clean-up issued, in order, with their status
    sweepFailed,   \* some remote call of the clean-up failed
    pcW            \* "listBranches" | "getCommit" | "deleteRef" | "done"

synthVars == <<filePath, original, rewrite, parts, suggestions, warnings, pcS>>

hostVars == <<reviews, comments, nextId>>

runVars == <<pcD, calls, pendingId, listed, listIdx, existing, newSuggestions,
             inFlight, dLog>>

deliverVars == <<tokenLogin, prSuggestions, hostVars, runVars, runsDone,
                 failedEver, countAfter>>

batchVars == <<batchVersion, pendingCreates, reviewCall, batchLog, pcB>>

namingVars == <<nameCtx, nameOf>>

applyVars == <<applyFiles, applyIdx, applySha, onBranch, requests, pcA>>

analyzeVars == <<batchFiles, fileContents, batchPromise, progress, progressInterval,
                 ticks, tickedAfterReturn, analysisResults, pcN>>

sweepVars == <<repoBranches, maxAgeDays, cutoffDate, rewriteBranches, sweepIdx,
               commitDate, deletedRefs, sweepLog, sweepCalls, sweepFailed, pcW>>

rewriteVars == <<run, headSha, branches, pulls, refCreates, runsStarted, returned,
                 failedR, overlapped>>

-----------------------------------------------------------------------------
(* Strings *)

NL == "\n"

\* Characters String.prototype.trim removes (those that occur in the model).
IsSpace(c) == c \in {" ", "\n", "\t", "\r"}

RECURSIVE TrimStart(_)
TrimStart(s) ==
    IF s = <<>> THEN <<>>
    ELSE IF IsSpace(Head(s)) THEN TrimStart(Tail(s)) ELSE s

RECURSIVE TrimEnd(_)
TrimEnd(s) ==
    IF s = <<>> THEN <<>>
    ELSE IF IsSpace(s[Len(s)]) THEN TrimEnd(SubSeq(s, 1, Len(s) - 1)) ELSE s

\* String.prototype.trim
Trim(s) == TrimEnd(TrimStart(s))

\* String.prototype.startsWith
StartsWith(s, p) == Len(s) >= Len(p) /\ SubSeq(s, 1, Len(p)) = p

\* Array.prototype.join
RECURSIVE JoinWith(_, _)
JoinWith(ls, sep) ==
    IF ls = <<>> THEN <<>>
    ELSE IF Len(ls) = 1 THEN ls[1]
    ELSE ls[1] \o sep \o JoinWith(Tail(ls), sep)

\* String.prototype.split('\n'): "" splits into [""].
RECURSIVE SplitAcc(_, _)
SplitAcc(s, cur) ==
    IF s = <<>> THEN <<cur>>
    ELSE IF Head(s) = NL THEN <<cur>> \o SplitAcc(Tail(s), <<>>)
    ELSE SplitAcc(Tail(s), Append(cur, Head(s)))

SplitLines(s) == SplitAcc(s, <<>>)

-----------------------------------------------------------------------------
(* diffLines of the `diff` package, as generateDiff calls it                *)
(* (ignoreWhitespace: false, ignoreNewlineAtEof: false).                    *)
(*                                                                         *)
(* The package tokenizes each text into lines that keep their terminator    *)
(* (a final line without terminator is a token of its own, an empty final   *)
(* piece is dropped), compares tokens exactly, and returns a shortest edit  *)
(* script as change objects: consecutive tokens of one kind are merged into *)
(* one object, and in a changed block the removed object precedes the added *)
(* one.  Which of several shortest scripts the package picks is left open:  *)
(* DiffLines is the set of all of them.                                      *)

RECURSIVE TokAcc(_, _)
TokAcc(s, cur) ==
    IF s = <<>> THEN (IF cur = <<>> THEN <<>> ELSE <<cur>>)
    ELSE IF Head(s) = NL THEN <<Append(cur, NL)>> \o TokAcc(Tail(s), <<>>)
    ELSE TokAcc(Tail(s), Append(cur, Head(s)))

Tokenize(s) == TokAcc(s, <<>>)

\* Length of a longest common subsequence of a[i..] and b[j..].
RECURSIVE LcsLen(_, _, _, _)
LcsLen(a, b, i, j) ==
    IF i > Len(a) \/ j > Len(b) THEN 0
    ELSE IF a[i] = b[j] THEN 1 + LcsLen(a, b, i + 1, j + 1)
    ELSE LET r == LcsLen(a, b, i + 1, j)
             d == LcsLen(a, b, i, j + 1)
         IN  IF r >= d THEN r ELSE d

\* The shortest edit scripts from (i, j) on: sequences over "common",
\* "removed", "added", one entry per token, never "added" directly before
\* "removed" (the package emits the removal of a block first).
RECURSIVE Scripts(_, _, _, _, _)
Scripts(a, b, i, j, last) ==
    IF i > Len(a) /\ j > Len(b) THEN {<<>>}
    ELSE
      LET here == LcsLen(a, b, i, j)
          keep == IF i <= Len(a) /\ j <= Len(b) /\ a[i] = b[j]
                     /\ here = 1 + LcsLen(a, b, i + 1, j + 1)
                  THEN {<<"common">> \o t : t \in Scripts(a, b, i + 1, j + 1, "common")}
                  ELSE {}
          del  == IF i <= Len(a) /\ last # "added" /\ LcsLen(a, b, i + 1, j) = here
                  THEN {<<"removed">> \o t : t \in Scripts(a, b, i + 1, j, "removed")}
                  ELSE {}
          ins  == IF j <= Len(b) /\ LcsLen(a, b, i, j + 1) = here
                  THEN {<<"added">> \o t : t \in Scripts(a, b, i, j + 1, "added")}
                  ELSE {}
      IN  keep \cup del \cup ins

\* The change objects of one script: [kind, value, count], consecutive
\* tokens of the same kind merged.
RECURSIVE PartsOf(_, _, _, _, _)
PartsOf(script, a, b, i, j) ==
    IF script = <<>> THEN <<>>
    ELSE
      LET k    == Head(script)
          tok  == IF k = "removed" THEN a[i] ELSE b[j]
          ni   == IF k = "added" THEN i ELSE i + 1
          nj   == IF k = "removed" THEN j ELSE j + 1
          rest == PartsOf(Tail(script), a, b, ni, nj)
      IN  IF rest # <<>> /\ rest[1].kind = k
          THEN <<[kind |-> k, value |-> tok \o rest[1].value,
                  count |-> 1 + rest[1].count]>> \o Tail(rest)
          ELSE <<[kind |-> k, value |-> tok, count |-> 1]>> \o rest

DiffLines(oldStr, newStr) ==
    LET a == Tokenize(oldStr)
        b == Tokenize(newStr)
    IN  {PartsOf(sc, a, b, 1, 1) : sc \in Scripts(a, b, 1, 1, "common")}

\* generateDiff: the text built from the change objects.  The marker is put
\* before the value of a change object, that is before its first line only.
RECURSIVE DiffText(_)
DiffText(ps) ==
    IF ps = <<>> THEN <<>>
    ELSE (IF ps[1].kind = "added" THEN <<"+">> \o ps[1].value
          ELSE IF ps[1].kind = "removed" THEN <<"-">> \o ps[1].value
          ELSE ps[1].value) \o DiffText(Tail(ps))

-----------------------------------------------------------------------------
(* diffToSuggestionChunksWithPositions *)

Digits == <<"0", "1", "2", "3", "4", "5", "6", "7", "8", "9">>

IsDigit(c) == \E d \in 1..10 : Digits[d] = c

DigitValue(c) == (CHOOSE d \in 1..10 : Digits[d] = c) - 1

\* The first index >= i of s that holds no digit (Len(s) + 1 if none).
RECURSIVE DigitsEnd(_, _)
DigitsEnd(s, i) ==
    IF i <= Len(s) /\ IsDigit(s[i]) THEN DigitsEnd(s, i + 1) ELSE i

\* parseInt(text, 10) of a run of digits.
RECURSIVE ParseInt(_)
ParseInt(ds) ==
    IF ds = <<>> THEN 0
    ELSE 10 * ParseInt(SubSeq(ds, 1, Len(ds) - 1)) + DigitValue(ds[Len(ds)])

At(s, i, p) == i + Len(p) - 1 <= Len(s) /\ SubSeq(s, i, i + Len(p) - 1) = p

\* /@@ -(\d+),?\d* \+(\d+),?\d* @@/ tried at index p of `line`: the value of
\* the second group, or -1 when the pattern does not match there.
HeaderAt(line, p) ==
    IF ~At(line, p, <<"@", "@", " ", "-">>) THEN -1
    ELSE
      LET i1 == p + 4
          e1 == DigitsEnd(line, i1)
          i2 == IF At(line, e1, <<",">>) THEN e1 + 1 ELSE e1
          e2 == DigitsEnd(line, i2)
          i3 == e2 + 2
          e3 == DigitsEnd(line, i3)
          i4 == IF At(line, e3, <<",">>) THEN e3 + 1 ELSE e3
          e4 == DigitsEnd(line, i4)
      IN  IF e1 > i1 /\ At(line, e2, <<" ", "+">>) /\ e3 > i3
             /\ At(line, e4, <<" ", "@", "@">>)
          THEN ParseInt(SubSeq(line, i3, e3 - 1))
          ELSE -1

\* line.match(...): the leftmost match, -1 for null.
HeaderMatch(line) ==
    LET hits == {p \in 1..Len(line) : HeaderAt(line, p) # -1}
    IN  IF hits = {} THEN -1
        ELSE HeaderAt(line, CHOOSE p \in hits : \A q \in hits : p <= q)

\* chunks.push({content: currentChunk.join('\n'),
\*              lineNumber: currentLineNumber - currentChunk.length})
PushChunk(st) ==
    Append(st.chunks, [content    |-> JoinWith(st.currentChunk, <<NL>>),
                       lineNumber |-> st.currentLineNumber - Len(st.currentChunk)])

\* One iteration of the loop over the lines of the diff text.
ChunkStep(st, line) ==
    IF StartsWith(line, <<"@", "@">>) THEN
        LET m == HeaderMatch(line) IN
        IF m # -1 THEN
            LET st1 == [st EXCEPT !.currentLineNumber = m] IN
            IF Len(st1.currentChunk) > 0
            THEN [st1 EXCEPT !.chunks = PushChunk(st1), !.currentChunk = <<>>,
                             !.inChunk = FALSE]
            ELSE [st1 EXCEPT !.inChunk = FALSE]
        ELSE st
    ELSE IF StartsWith(line, <<"+">>) /\ ~StartsWith(line, <<"+", "+">>) THEN
        \* an addition: add to the current chunk
        [st EXCEPT !.currentChunk = Append(@, Tail(line)), !.inChunk = TRUE]
    ELSE IF StartsWith(line, <<"-">>) /\ ~StartsWith(line, <<"-", "-">>) THEN
        \* a deletion: skipped, but the line number is incremented
        [st EXCEPT !.currentLineNumber = @ + 1]
    ELSE IF StartsWith(line, <<" ">>) THEN
        \* unchanged context
        IF st.inChunk /\ Len(st.currentChunk) > 0
        THEN [st EXCEPT !.chunks = PushChunk(st), !.currentChunk = <<>>,
                        !.inChunk = FALSE, !.currentLineNumber = @ + 1]
        ELSE [st EXCEPT !.currentLineNumber = @ + 1]
    ELSE st

RECURSIVE ChunkLoop(_, _)
ChunkLoop(st, lines) ==
    IF lines = <<>> THEN st
    ELSE ChunkLoop(ChunkStep(st, Head(lines)), Tail(lines))

diffToSuggestionChunksWithPositions(diff) ==
    LET st == ChunkLoop([chunks |-> <<>>, currentChunk |-> <<>>,
                         currentLineNumber |-> 1, inChunk |-> FALSE],
                        SplitLines(diff))
    IN  \* the last chunk
        IF Len(st.currentChunk) > 0 THEN PushChunk(st) ELSE st.chunks

-----------------------------------------------------------------------------
(* createCommitSuggestions, hunk-chunking version *)

\* Bound: the number of lines of a document.
MaxLines == 3

\* The texts a line of a document is drawn from: an empty line, two plain
\* lines and a line that itself begins with '+' (a Markdown bullet).
LineTexts == {<<>>, <<"a">>, <<"b">>, <<"+", "a">>}

\* The documents: 1..MaxLines lines joined by newlines.  A document whose
\* last line is empty ends with a newline; the single empty line is "".
Docs ==
    {JoinWith(ls, <<NL>>) :
        ls \in UNION {[1..n -> LineTexts] : n \in 1..MaxLines}}

\* readFileContent threw.
ReadError == <<"read error">>

\* if (!result.rewrite || result.rewrite.trim() === originalContent.trim())
SkipRewriteNoTrim(originalContent, rew) ==
    rew = <<>> \/ rew = originalContent

SkipRewrite(originalContent, rew) ==
    rew = <<>> \/ Trim(rew) = Trim(originalContent)

\* The suggestions pushed for the chunks of one file, in order.  (The
\* fields originalContent, rewrittenContent and diff of a CommitSuggestion
\* are copies of the inputs and are not carried.)
RECURSIVE ChunkSuggestions(_, _)
ChunkSuggestions(path, chunks) ==
    IF chunks = <<>> THEN <<>>
    ELSE <<[filePath   |-> path,
            lineNumber |-> chunks[1].lineNumber,
            suggestion |-> chunks[1].content]>>
         \o ChunkSuggestions(path, Tail(chunks))

\* A variant with the whole-file fallback the hunk-chunking version lacks.
SuggestionsForWithFallback(path, rew, diff) ==
    LET suggestionChunks == diffToSuggestionChunksWithPositions(diff)
    IN  IF Trim(diff) = <<>> THEN <<>>
        ELSE IF Len(suggestionChunks) = 0
        THEN <<[filePath |-> path, lineNumber |-> 1, suggestion |-> rew]>>
        ELSE ChunkSuggestions(path, suggestionChunks)

\* Lines 124-161: from the diff text to the suggestions of the file.
SuggestionsFor(path, rew, diff) ==
    LET suggestionChunks == diffToSuggestionChunksWithPositions(diff)
    IN  IF Trim(diff) = <<>> THEN <<>>
        ELSE IF Len(suggestionChunks) = 0 THEN <<>>
        ELSE ChunkSuggestions(path, suggestionChunks)

SynthStart ==
    /\ filePath = "a.md"
    /\ original \in Docs \cup {ReadError}
    /\ rewrite \in Docs
    /\ parts = <<>>
    /\ suggestions = <<>>
    /\ warnings = 0
    /\ pcS = "start"

\* createCommitSuggestions([result]): the body of the loop for one result.
createCommitSuggestions ==
    /\ pcS = "start"
    /\ pcS' = "done"
    /\ UNCHANGED <<filePath, original, rewrite>>
    /\ IF original = ReadError THEN
            \* catch: core.warning(`Failed to create suggestion ...`)
            /\ warnings' = warnings + 1
            /\ UNCHANGED <<parts, suggestions>>
       ELSE IF original = <<>> THEN
            \* core.warning(`Could not read original content ...`); continue
            /\ warnings' = warnings + 1
            /\ UNCHANGED <<parts, suggestions>>
       ELSE IF SkipRewrite(original, rewrite) THEN
            UNCHANGED <<parts, suggestions, warnings>>
       ELSE
            \E ps \in DiffLines(original, rewrite) :
                /\ parts' = ps
                /\ suggestions' = SuggestionsFor(filePath, rewrite, DiffText(ps))
                /\ UNCHANGED warnings

SynthDone == pcS = "done"

\* The result passed the filters of lines 113-121 and was diffed.
Diffed == SynthDone /\ parts # <<>>

-----------------------------------------------------------------------------
(* Properties of createCommitSuggestions *)

\* A value of a change object without its final line terminator: the lines
\* of the object joined by newlines.
StripFinalNL(v) ==
    IF v # <<>> /\ v[Len(v)] = NL THEN SubSeq(v, 1, Len(v) - 1) ELSE v

\* The maximal runs of added lines of a diff, each with the 1-based position
\* of its first line in the rewritten document: common and added lines
\* advance the position, removed lines do not.
RECURSIVE AddedRuns(_, _)
AddedRuns(ps, pos) ==
    IF ps = <<>> THEN <<>>
    ELSE IF ps[1].kind = "added"
         THEN <<[lineNumber |-> pos, text |-> StripFinalNL(ps[1].value)]>>
              \o AddedRuns(Tail(ps), pos + ps[1].count)
    ELSE IF ps[1].kind = "common" THEN AddedRuns(Tail(ps), pos + ps[1].count)
    ELSE AddedRuns(Tail(ps), pos)

HasAdded(ps) == \E k \in 1..Len(ps) : ps[k].kind = "added"

\* Exactly one line is replaced in place: one removed line directly followed
\* by one added line, everything else common.
SingleReplace(ps) ==
    \E k \in 1..(Len(ps) - 1) :
        /\ ps[k].kind = "removed" /\ ps[k].count = 1
        /\ ps[k + 1].kind = "added" /\ ps[k + 1].count = 1
        /\ \A m \in 1..Len(ps) : m \notin {k, k + 1} => ps[m].kind = "common"

\* What the chunker makes of the diff text of the current run.
Chunks == diffToSuggestionChunksWithPositions(DiffText(parts))

\* C4: every emitted suggestion is anchored at the position, in the
\* rewritten document, of the first added line of a run of added lines
\* (removed lines never advance the counter); when exactly one line is
\* replaced in place at rewritten line N, exactly one suggestion is emitted
\* and its lineNumber is N.
C4_LineNumberIsRewrittenPosition ==
    Diffed =>
        LET runs == AddedRuns(parts, 1) IN
        /\ \A k \in 1..Len(suggestions) :
              \E r \in 1..Len(runs) :
                  suggestions[k].lineNumber = runs[r].lineNumber
        /\ SingleReplace(parts) =>
              /\ Len(suggestions) = 1
              /\ suggestions[1].lineNumber = runs[1].lineNumber

\* C5: one suggestion per maximal run of added lines, whose text is all the
\* added lines of the run joined by newlines.
C5_OneSuggestionPerAddedRun ==
    Diffed =>
        LET runs == AddedRuns(parts, 1) IN
        /\ Len(suggestions) = Len(runs)
        /\ \A k \in 1..Len(suggestions) :
              suggestions[k].suggestion = runs[k].text

\* C6: every emitted suggestion has a lineNumber between 1 and the number of
\* lines of the rewritten document.
C6_LineNumberInRewrittenDocument ==
    SynthDone =>
        \A k \in 1..Len(suggestions) :
            /\ suggestions[k].lineNumber >= 1
            /\ suggestions[k].lineNumber <= Len(SplitLines(rewrite))

\* C7: a result whose rewrite is empty, or equals the original content after
\* trimming, yields no suggestion for its file.
C7_NoSuggestionForEmptyOrTrimEqualRewrite ==
    (/\ SynthDone
     /\ \/ rewrite = <<>>
        \/ original # ReadError /\ Trim(rewrite) = Trim(original))
    => \A k \in 1..Len(suggestions) : suggestions[k].filePath # filePath

C7_Witness ==
    /\ SynthDone
    /\ original \notin {ReadError, <<>>}
    /\ rewrite # <<>>
    /\ rewrite # original
    /\ Trim(rewrite) = Trim(original)
    /\ suggestions = <<>>

C10_RemovalOnlySkippedWithWarning ==
    /\ (Diffed /\ ~HasAdded(parts)) => (suggestions = <<>> /\ warnings > 0)
    /\ SynthDone => \A k \in 1..Len(suggestions) :
                        suggestions[k].suggestion # <<>>

-----------------------------------------------------------------------------
(* createPRCommitSuggestions, version with existing-suggestion             *)
(* reconciliation, and the host's side of the change request               *)

\* Bounds: the number of suggestions passed to a run, and the number of runs.
MaxSuggestions == 2
MaxRuns == 2

Files == {"a.md", "b.md"}

\* github.context.actor, the login the default token acts as, another user.
Actor == "alice"
Bot   == "github-actions[bot]"
Other == "bob"

\* The suggestion lists passed in: suggestion k has text k, line k + 1.
SuggestionsOf(fs) ==
    [k \in 1..Len(fs) |-> [filePath |-> fs[k], lineNumber |-> k + 1, suggestion |-> k]]

SuggestionLists ==
    {SuggestionsOf(fs) : fs \in UNION {[1..n -> Files] : n \in 0..MaxSuggestions}}

\* The change request before the first run: no review, or one review (by
\* the actor, the token's user or somebody else; pending or submitted) with
\* no comment or one comment (on either file, with or without a suggestion).
InitialHosts ==
    {[reviews |-> <<>>, comments |-> <<>>]}
    \cup
    {[reviews  |-> <<[id |-> 1, user |-> u, state |-> st]>>,
      comments |-> cs] :
        u \in {Actor, Bot, Other}, st \in {"PENDING", "COMMENTED"},
        cs \in {<<>>} \cup
               {<<[id |-> 2, review |-> 1, path |-> f, marker |-> m, text |-> 0]>> :
                    f \in Files, m \in BOOLEAN}}

\* The status of a response: success, or one an Octokit call fails with.
OK == 200
FailStatus == {403, 404, 500}
Outcomes == {OK} \cup FailStatus

Issue(call) == Append(calls, call)

\* The number of suggestion comments on the change request.
SuggestionCount ==
    Cardinality({k \in 1..Len(comments) : comments[k].marker})

DeliverStart ==
    /\ tokenLogin \in {Actor, Bot}
    /\ prSuggestions \in SuggestionLists
    /\ \E h \in InitialHosts : reviews = h.reviews /\ comments = h.comments
    /\ nextId = 3
    /\ pcD = "idle"
    /\ calls = <<>>
    /\ pendingId = 0
    /\ listed = <<>>
    /\ listIdx = 0
    /\ existing = [f \in Files |-> 0]
    /\ newSuggestions = <<>>
    /\ inFlight = {}
    /\ dLog = {}
    /\ runsDone = 0
    /\ failedEver = FALSE
    /\ countAfter = <<>>

\* The outer catch (lines 444-461).
CatchOuter(status) ==
    /\ dLog' = dLog \cup {IF status = 403 THEN "error: permission denied"
                          ELSE IF status = 404 THEN "error: pull request not found"
                          ELSE "error: failed to create commit suggestions"}
    /\ pcD' = "done"

\* createPRCommitSuggestions is called (lines 305-314).
StartRunNoEarlyReturn ==
    /\ pcD = "idle"
    /\ runsDone < MaxRuns
    /\ calls' = <<>>
    /\ pendingId' = 0
    /\ listed' = <<>>
    /\ listIdx' = 0
    /\ existing' = [f \in Files |-> 0]
    /\ newSuggestions' = <<>>
    /\ inFlight' = {}
    /\ dLog' = {}
    /\ pcD' = "reposGet"
    /\ UNCHANGED <<tokenLogin, prSuggestions, hostVars, runsDone, failedEver, countAfter>>

StartRun ==
    /\ pcD = "idle"
    /\ runsDone < MaxRuns
    /\ calls' = <<>>
    /\ pendingId' = 0
    /\ listed' = <<>>
    /\ listIdx' = 0
    /\ existing' = [f \in Files |-> 0]
    /\ newSuggestions' = <<>>
    /\ inFlight' = {}
    /\ IF Len(prSuggestions) = 0
       THEN dLog' = {"info: No suggestions to create"} /\ pcD' = "done"
       ELSE dLog' = {} /\ pcD' = "reposGet"
    /\ UNCHANGED <<tokenLogin, prSuggestions, hostVars, runsDone, failedEver, countAfter>>

\* The access check with a 403 treated like any success.
ReposGetIgnoring403 ==
    /\ pcD = "reposGet"
    /\ \E res \in Outcomes :
        /\ calls' = Issue([op |-> "repos.get", status |-> res])
        /\ failedEver' = (failedEver \/ res # OK)
        /\ IF res \in {OK, 403} THEN pcD' = "pullsGet" /\ UNCHANGED dLog
           ELSE CatchOuter(res)
    /\ UNCHANGED <<tokenLogin, prSuggestions, hostVars, pendingId, listed, listIdx,
                   existing, newSuggestions, inFlight, runsDone, countAfter>>

\* octokit.rest.repos.get (lines 317-332).
ReposGet ==
    /\ pcD = "reposGet"
    /\ \E res \in Outcomes :
        /\ calls' = Issue([op |-> "repos.get", status |-> res])
        /\ failedEver' = (failedEver \/ res # OK)
        /\ IF res = OK THEN pcD' = "pullsGet" /\ UNCHANGED dLog
           ELSE IF res = 403
           THEN /\ dLog' = dLog \cup {"error: permission denied, cannot access repository"}
                /\ pcD' = "done"
           ELSE CatchOuter(res)
    /\ UNCHANGED <<tokenLogin, prSuggestions, hostVars, pendingId, listed, listIdx,
                   existing, newSuggestions, inFlight, runsDone, countAfter>>

\* The fetch of the change request with its failure ignored.
PullsGetContinuing ==
    /\ pcD = "pullsGet"
    /\ \E res \in Outcomes :
        /\ calls' = Issue([op |-> "pulls.get", status |-> res])
        /\ failedEver' = (failedEver \/ res # OK)
        /\ pcD' = "listPending"
    /\ UNCHANGED <<tokenLogin, prSuggestions, hostVars, pendingId, listed, listIdx,
                   existing, newSuggestions, inFlight, dLog, runsDone, countAfter>>

\* octokit.rest.pulls.get (lines 334-341).
PullsGet ==
    /\ pcD = "pullsGet"
    /\ \E res \in Outcomes :
        /\ calls' = Issue([op |-> "pulls.get", status |-> res])
        /\ failedEver' = (failedEver \/ res # OK)
        /\ IF res = OK THEN pcD' = "listPending" /\ UNCHANGED dLog
           ELSE CatchOuter(res)
    /\ UNCHANGED <<tokenLogin, prSuggestions, hostVars, pendingId, listed, listIdx,
                   existing, newSuggestions, inFlight, runsDone, countAfter>>

\* The reviews of a listing that are PENDING, in listing order.  (The sort
\* of line 191 compares submitted_at, which a pending review does not have:
\* the comparator yields NaN and the order of the listing is kept.)
PendingOf(rs) == SelectSeq(rs, LAMBDA r : r.state = "PENDING")

\* pendingReview?.id || null
FirstPendingId(rs) ==
    IF PendingOf(rs) = <<>> THEN 0 ELSE PendingOf(rs)[1].id

\* findExistingPendingReview (lines 175-202, called at 344-349).
FindExistingPendingReview ==
    /\ pcD = "listPending"
    /\ \E res \in {OK, 500} :
        /\ calls' = Issue([op |-> "listReviews", status |-> res])
        /\ failedEver' = (failedEver \/ res # OK)
        /\ IF res = OK
           THEN /\ pendingId' = FirstPendingId(reviews)
                /\ UNCHANGED dLog
           ELSE /\ pendingId' = 0
                /\ dLog' = dLog \cup {"warning: failed to find existing pending review"}
        /\ pcD' = IF pendingId' # 0 THEN "submit" ELSE "listExisting"
    /\ UNCHANGED <<tokenLogin, prSuggestions, hostVars, listed, listIdx,
                   existing, newSuggestions, inFlight, runsDone, countAfter>>

\* submitPendingReview with the call left out.
SubmitPendingReviewSkipped ==
    /\ pcD = "submit"
    /\ pcD' = "listExisting"
    /\ UNCHANGED <<tokenLogin, prSuggestions, hostVars, calls, pendingId, listed, listIdx,
                   existing, newSuggestions, inFlight, dLog, runsDone, failedEver, countAfter>>

\* The host's review list after a review is submitted with event COMMENT.
Submitted(rs, id) ==
    [k \in 1..Len(rs) |-> IF rs[k].id = id THEN [rs[k] EXCEPT !.state = "COMMENTED"]
                          ELSE rs[k]]

\* submitPendingReview without its catch: a failure reaches the outer catch.
SubmitPendingReviewThrowing ==
    /\ pcD = "submit"
    /\ \E res \in {OK, 500} :
        /\ calls' = Issue([op |-> "submitReview", id |-> pendingId, event |-> "COMMENT",
                            status |-> res])
        /\ failedEver' = (failedEver \/ res # OK)
        /\ IF res = OK
           THEN /\ reviews' = Submitted(reviews, pendingId)
                /\ dLog' = dLog \cup {"info: submitted existing pending review"}
                /\ pcD' = "listExisting"
           ELSE /\ UNCHANGED reviews
                /\ CatchOuter(res)
    /\ UNCHANGED <<tokenLogin, prSuggestions, comments, nextId, pendingId, listed, listIdx,
                   existing, newSuggestions, inFlight, runsDone, countAfter>>

\* submitPendingReview (lines 207-226, called at 350-358).
SubmitPendingReview ==
    /\ pcD = "submit"
    /\ \E res \in {OK, 500} :
        /\ calls' = Issue([op |-> "submitReview", id |-> pendingId, event |-> "COMMENT",
                            status |-> res])
        /\ failedEver' = (failedEver \/ res # OK)
        /\ IF res = OK
           THEN /\ reviews' = Submitted(reviews, pendingId)
                /\ dLog' = dLog \cup {"info: submitted existing pending review"}
           ELSE /\ UNCHANGED reviews
                /\ dLog' = dLog \cup {"warning: failed to submit pending review"}
    /\ pcD' = "listExisting"
    /\ UNCHANGED <<tokenLogin, prSuggestions, comments, nextId, pendingId, listed, listIdx,
                   existing, newSuggestions, inFlight, runsDone, countAfter>>

\* The next review of the listing, from index i on, whose author is
\* github.context.actor (line 248); Len(rs) + 1 when there is none.
RECURSIVE NextOwn(_, _)
NextOwn(rs, i) ==
    IF i > Len(rs) THEN i
    ELSE IF rs[i].user = Actor THEN i
    ELSE NextOwn(rs, i + 1)

\* suggestions.map((s) => s.filePath) (line 361).
FilePaths == {prSuggestions[k].filePath : k \in 1..Len(prSuggestions)}

\* The loop of lines 257-264 over the comments of one review.
RECURSIVE SetExisting(_, _)
SetExisting(map, cs) ==
    IF cs = <<>> THEN map
    ELSE LET c == Head(cs)
         IN  SetExisting(IF c.marker /\ c.path \in FilePaths
                         THEN [map EXCEPT ![c.path] = c.id]
                         ELSE map,
                         Tail(cs))

\* listReviewComments with a review_id: the comments of that review.
CommentsOf(id) == SelectSeq(comments, LAMBDA c : c.review = id)

\* findExistingSuggestions, the listing of the reviews (lines 238-247).
FindExistingSuggestions ==
    /\ pcD = "listExisting"
    /\ existing' = [f \in Files |-> 0]
    /\ \E res \in {OK, 500} :
        /\ calls' = Issue([op |-> "listReviews", status |-> res])
        /\ failedEver' = (failedEver \/ res # OK)
        /\ IF res = OK
           THEN /\ listed' = reviews
                /\ listIdx' = NextOwn(reviews, 1)
                /\ pcD' = IF listIdx' > Len(reviews) THEN "classify" ELSE "listComments"
                /\ UNCHANGED dLog
           ELSE /\ UNCHANGED <<listed, listIdx>>
                /\ pcD' = "classify"
                /\ dLog' = dLog \cup {"warning: failed to find existing suggestions"}
    /\ UNCHANGED <<tokenLogin, prSuggestions, hostVars, pendingId,
                   newSuggestions, inFlight, runsDone, countAfter>>

\* findExistingSuggestions, one turn of the loop over the reviews of the
\* actor (lines 247-266), and its catch (lines 269-272).
ListReviewComments ==
    /\ pcD = "listComments"
    /\ \E res \in {OK, 500} :
        /\ calls' = Issue([op |-> "listReviewComments", id |-> listed[listIdx].id,
                            status |-> res])
        /\ failedEver' = (failedEver \/ res # OK)
        /\ IF res = OK
           THEN /\ existing' = SetExisting(existing, CommentsOf(listed[listIdx].id))
                /\ listIdx' = NextOwn(listed, listIdx + 1)
                /\ pcD' = IF listIdx' > Len(listed) THEN "classify" ELSE "listComments"
                /\ UNCHANGED dLog
           ELSE /\ existing' = [f \in Files |-> 0]
                /\ UNCHANGED listIdx
                /\ pcD' = "classify"
                /\ dLog' = dLog \cup {"warning: failed to find existing suggestions"}
    /\ UNCHANGED <<tokenLogin, prSuggestions, hostVars, pendingId, listed,
                   newSuggestions, inFlight, runsDone, countAfter>>

\* The suggestions that have an existing comment, and those that have not,
\* in the order of the list (lines 374-397).
ToUpdate == SelectSeq(prSuggestions, LAMBDA s : existing[s.filePath] # 0)
ToCreate == SelectSeq(prSuggestions, LAMBDA s : existing[s.filePath] = 0)

UpdateCalls ==
    [k \in 1..Len(ToUpdate) |->
        [op |-> "updateReviewComment", id |-> existing[ToUpdate[k].filePath],
         text |-> ToUpdate[k].suggestion, status |-> 0]]

\* The synchronous loop of lines 371-397: every update request is issued,
\* none is awaited yet (status 0: no response yet).
Classify ==
    /\ pcD = "classify"
    /\ newSuggestions' = ToCreate
    /\ calls' = calls \o UpdateCalls
    /\ inFlight' = {Len(calls) + k : k \in 1..Len(ToUpdate)}
    /\ pcD' = IF ToUpdate = <<>> THEN "create" ELSE "awaitUpdates"
    /\ UNCHANGED <<tokenLogin, prSuggestions, hostVars, pendingId, listed, listIdx,
                   existing, dLog, runsDone, failedEver, countAfter>>

\* The host's comments after the body of one is replaced.
Updated(cs, id, text) ==
    [k \in 1..Len(cs) |-> IF cs[k].id = id
                          THEN [cs[k] EXCEPT !.marker = TRUE, !.text = text]
                          ELSE cs[k]]

\* updateSuggestionComment without its catch: the failure rejects
\* Promise.all and reaches the outer catch.
UpdateSuggestionCommentThrowing ==
    /\ pcD = "awaitUpdates"
    /\ \E k \in inFlight :
        /\ inFlight' = inFlight \ {k}
        /\ \E res \in {OK, 500} :
            /\ calls' = [calls EXCEPT ![k].status = res]
            /\ failedEver' = (failedEver \/ res # OK)
            /\ IF res = OK
               THEN /\ comments' = Updated(comments, calls[k].id, calls[k].text)
                    /\ dLog' = dLog \cup {"info: updated existing suggestion"}
                    /\ pcD' = IF inFlight' = {} THEN "create" ELSE "awaitUpdates"
               ELSE /\ UNCHANGED comments
                    /\ CatchOuter(res)
    /\ UNCHANGED <<tokenLogin, prSuggestions, reviews, nextId, pendingId, listed,
                   listIdx, existing, newSuggestions, runsDone, countAfter>>

\* One update request settles (updateSuggestionComment, lines 278-300);
\* Promise.all resolves when the last has settled (lines 400-403).
UpdateSuggestionComment ==
    /\ pcD = "awaitUpdates"
    /\ \E k \in inFlight :
        /\ inFlight' = inFlight \ {k}
        /\ \E res \in {OK, 500} :
            /\ calls' = [calls EXCEPT ![k].status = res]
            /\ failedEver' = (failedEver \/ res # OK)
            /\ IF res = OK
               THEN /\ comments' = Updated(comments, calls[k].id, calls[k].text)
                    /\ dLog' = dLog \cup {"info: updated existing suggestion"}
               ELSE /\ UNCHANGED comments
                    /\ dLog' = dLog \cup {"warning: failed to update suggestion comment"}
    /\ pcD' = IF inFlight' = {} THEN "create" ELSE "awaitUpdates"
    /\ UNCHANGED <<tokenLogin, prSuggestions, reviews, nextId, pendingId, listed,
                   listIdx, existing, newSuggestions, runsDone, countAfter>>

\* The comments of the review request (lines 409-413).
ReviewComments ==
    [k \in 1..Len(newSuggestions) |->
        [path |-> newSuggestions[k].filePath, position |-> 1,
         text |-> newSuggestions[k].suggestion]]

\* The comments the host stores for a created review.
StoredComments(reviewId, cs) ==
    [k \in 1..Len(cs) |->
        [id |-> reviewId + k, review |-> reviewId, path |-> cs[k].path,
         marker |-> TRUE, text |-> cs[k].text]]

\* The creation of the review with a failure that leaves no trace.
CreateReviewSwallowingFailure ==
    /\ pcD = "create"
    /\ IF newSuggestions = <<>>
       THEN /\ dLog' = dLog \cup {"info: No new suggestions to create"}
            /\ pcD' = "done"
            /\ UNCHANGED <<hostVars, calls, failedEver>>
       ELSE /\ \E res \in Outcomes :
                /\ calls' = Issue([op |-> "createReview", event |-> "COMMENT",
                                    comments |-> ReviewComments, status |-> res])
                /\ failedEver' = (failedEver \/ res # OK)
                /\ pcD' = "done"
                /\ IF res = OK
                   THEN /\ reviews' = Append(reviews, [id |-> nextId, user |-> tokenLogin,
                                                       state |-> "COMMENTED"])
                        /\ comments' = comments \o StoredComments(nextId, ReviewComments)
                        /\ nextId' = nextId + 1 + Len(ReviewComments)
                        /\ dLog' = dLog \cup {"info: created new suggestions"}
                   ELSE /\ UNCHANGED <<hostVars, dLog>>
    /\ UNCHANGED <<tokenLogin, prSuggestions, pendingId, listed, listIdx, existing,
                   newSuggestions, inFlight, runsDone, countAfter>>

\* The creation of the review for the new suggestions (lines 405-443).
CreateReview ==
    /\ pcD = "create"
    /\ IF newSuggestions = <<>>
       THEN /\ dLog' = dLog \cup {"info: No new suggestions to create"}
            /\ pcD' = "done"
            /\ UNCHANGED <<hostVars, calls, failedEver>>
       ELSE /\ \E res \in Outcomes :
                /\ calls' = Issue([op |-> "createReview", event |-> "COMMENT",
                                    comments |-> ReviewComments, status |-> res])
                /\ failedEver' = (failedEver \/ res # OK)
                /\ IF res = OK
                   THEN /\ reviews' = Append(reviews, [id |-> nextId, user |-> tokenLogin,
                                                       state |-> "COMMENTED"])
                        /\ comments' = comments \o StoredComments(nextId, ReviewComments)
                        /\ nextId' = nextId + 1 + Len(ReviewComments)
                        /\ dLog' = dLog \cup {"info: created new suggestions"}
                        /\ pcD' = "done"
                   ELSE /\ UNCHANGED hostVars
                        /\ CatchOuter(res)
    /\ UNCHANGED <<tokenLogin, prSuggestions, pendingId, listed, listIdx, existing,
                   newSuggestions, inFlight, runsDone, countAfter>>

\* createPRCommitSuggestions returns.
ReturnFromRun ==
    /\ pcD = "done"
    /\ pcD' = "idle"
    /\ runsDone' = runsDone + 1
    /\ countAfter' = Append(countAfter, SuggestionCount)
    /\ UNCHANGED <<tokenLogin, prSuggestions, hostVars, calls, pendingId, listed, listIdx,
                   existing, newSuggestions, inFlight, dLog, failedEver>>

\* The calls of the current run that write a comment.
WritesComment(call) == call.op \in {"updateReviewComment", "createReview"}

SubmitsPending(call) ==
    call.op = "submitReview" /\ call.id = pendingId /\ call.event = "COMMENT"

\* C8: a call of createPRCommitSuggestions with an empty suggestion list
\* issues no remote call at all, up to and including its return.
C8_EmptyListIssuesNoCall ==
    Len(prSuggestions) = 0 => calls = <<>>

C8_Witness ==
    Len(prSuggestions) = 0 /\ runsDone >= 1 /\ pcD = "idle"

\* C3: in a run whose review listing contained a PENDING review
\* (pendingId # 0), once the run is past the submission step a submitReview
\* call with event COMMENT for that review is in the run's call log, and it
\* precedes every updateReviewComment and createReview call of the run.
C3_PendingSubmittedBeforeWrites ==
    pendingId # 0 =>
        /\ pcD # "submit" => \E i \in 1..Len(calls) : SubmitsPending(calls[i])
        /\ \A j \in 1..Len(calls) :
              WritesComment(calls[j]) =>
                  \E i \in 1..(j - 1) : SubmitsPending(calls[i])

C3_Witness ==
    /\ pendingId # 0
    /\ pcD = "done"
    /\ \E j \in 1..Len(calls) : calls[j].op = "updateReviewComment"
    /\ \E j \in 1..Len(calls) : calls[j].op = "createReview"

\* C2: after two runs with the same suggestion list in which every remote
\* call succeeded, the number of suggestion comments on the change request
\* after the second run equals the number after the first.
C2_SecondRunCreatesNoComment ==
    (runsDone = 2 /\ ~failedEver) => countAfter[2] = countAfter[1]

\* The same, for a token whose login is github.context.actor.
C2_HoldsWhenTokenIsActor ==
    (runsDone = 2 /\ ~failedEver /\ tokenLogin = Actor) => countAfter[2] = countAfter[1]

\* The repository access check of the current run failed with status 403.
AccessDenied ==
    /\ Len(calls) >= 1
    /\ calls[1].op = "repos.get"
    /\ calls[1].status = 403

\* C11: when the repository access check fails with status 403 the run
\* ends at once with the permission-denied error message: the check is the
\* only remote call of the run, so no review is submitted, no comment is
\* updated and no review is created.
C11_AccessDeniedAbortsWithoutWrite ==
    AccessDenied =>
        /\ Len(calls) = 1
        /\ pcD \in {"done", "idle"}
        /\ "error: permission denied, cannot access repository" \in dLog

C11_Witness ==
    /\ AccessDenied
    /\ pcD = "idle"
    /\ runsDone = 1
    /\ PendingOf(reviews) # <<>>
    /\ \E k \in 1..Len(comments) : comments[k].marker /\ comments[k].path \in FilePaths

\* The author of a review on the host.
AuthorOf(reviewId) ==
    (CHOOSE r \in {reviews[k] : k \in 1..Len(reviews)} : r.id = reviewId).user

\* C26: the update requests a run has in flight at the same time target
\* pairwise distinct comments.
C26_ConcurrentUpdatesTargetDistinctComments ==
    \A j, k \in inFlight : j # k => calls[j].id # calls[k].id

\* C26 for a run whose suggestions are for pairwise distinct files.
C26_HoldsForDistinctFiles ==
    (\A i, j \in 1..Len(prSuggestions) :
        prSuggestions[i].filePath = prSuggestions[j].filePath => i = j) =>
            C26_ConcurrentUpdatesTargetDistinctComments

\* Two updates of one comment were in flight together and both succeeded:
\* the comment holds the text of the one that settled last, here the
\* first suggestion's.
C26_LastSettledWins ==
    /\ pcD = "create"
    /\ \E j, k \in 1..Len(calls) :
          /\ j < k
          /\ calls[j].op = "updateReviewComment" /\ calls[k].op = "updateReviewComment"
          /\ calls[j].id = calls[k].id
          /\ calls[j].status = OK /\ calls[k].status = OK
          /\ \E c \in 1..Len(comments) :
                comments[c].id = calls[j].id /\ comments[c].text = calls[j].text

\* The phase of the batch the run is in (the steps of lines 316-443).
Phase ==
    CASE pcD = "idle" -> "None"
      [] pcD = "reposGet" -> "NotStarted"
      [] pcD \in {"pullsGet", "listPending", "submit"} -> "PermissionChecked"
      [] pcD \in {"listExisting", "listComments", "classify", "awaitUpdates"} ->
             "PendingReviewCleared"
      [] pcD = "create" -> "Reconciled"
      [] pcD = "done" ->
             IF dLog \cap {"info: created new suggestions",
                           "info: No new suggestions to create"} # {}
             THEN "Submitted"
             ELSE "Ended"

PhaseRank(ph) ==
    CASE ph = "NotStarted" -> 0
      [] ph = "PermissionChecked" -> 1
      [] ph = "PendingReviewCleared" -> 2
      [] ph = "Reconciled" -> 3
      [] ph = "Submitted" -> 4
      [] OTHER -> 5

\* The failure outcomes of a run: the messages of lines 324-327 and 447-460.
FailureOutcomes ==
    {"error: permission denied, cannot access repository", "error: permission denied",
     "error: pull request not found", "error: failed to create commit suggestions"}

CallsOf(ops) == {j \in 1..Len(calls) : calls[j].op \in ops}

\* The order of the remote calls of the run.
CallsInPhaseOrder ==
    /\ \A j \in CallsOf({"repos.get"}) : j = 1
    /\ \A j \in CallsOf({"listReviews"}) :
           /\ calls[1].op = "repos.get" /\ calls[1].status = OK /\ j > 1
    /\ Cardinality(CallsOf({"listReviews"})) <= 2
    /\ Cardinality(CallsOf({"submitReview"})) <= 1
    /\ Cardinality(CallsOf({"createReview"})) <= 1
    /\ \A j \in CallsOf({"submitReview"}) :
           /\ Cardinality({i \in CallsOf({"listReviews"}) : i < j}) = 1
           /\ \A i \in CallsOf({"listReviews", "listReviewComments"}) :
                  i > j => Cardinality({h \in CallsOf({"listReviews"}) : h <= i}) = 2
           /\ \A i \in CallsOf({"listReviewComments"}) : i > j
    /\ \A j \in CallsOf({"updateReviewComment", "createReview"}) :
           /\ Cardinality({i \in CallsOf({"listReviews"}) : i < j}) = 2
           /\ \A i \in CallsOf({"listReviews", "listReviewComments"}) : i < j
    /\ \A j \in CallsOf({"createReview"}) :
           \A i \in CallsOf({"updateReviewComment"}) : i < j /\ calls[i].status # 0

\* C28: a run with a non-empty suggestion list moves through the phases
\* NotStarted, PermissionChecked, PendingReviewCleared, Reconciled,
\* Submitted one at a time and never back; its access check is its first
\* call and has succeeded before a review listing, the submission of a
\* pending review precedes the lookup of the existing suggestion comments,
\* and that lookup precedes every comment update and the review create; a
\* run that ends in another phase than Submitted has logged a failure
\* outcome.
C28_PhasesInOrder ==
    [][Len(prSuggestions) > 0 =>
          /\ CallsInPhaseOrder'
          /\ Phase' = "Ended" => dLog' \cap FailureOutcomes # {}
          /\ Phase' = "Submitted" => Phase \in {"Reconciled", "Submitted"}
          /\ Phase' # Phase =>
                 \/ Phase = "None" /\ Phase' = "NotStarted"
                 \/ PhaseRank(Phase) < 4 /\ PhaseRank(Phase') = PhaseRank(Phase) + 1
                 \/ PhaseRank(Phase) < 4 /\ Phase' = "Ended"
                 \/ PhaseRank(Phase) >= 4 /\ Phase' = "None"]_deliverVars

C28_Witness ==
    /\ Phase = "Submitted"
    /\ CallsOf({"submitReview"}) # {}
    /\ CallsOf({"updateReviewComment"}) # {}
    /\ CallsOf({"createReview"}) # {}

\* A run that ended in a failure outcome before it reached Submitted.
C28_EndedInFailure ==
    /\ Phase = "Ended"
    /\ Len(prSuggestions) > 0
    /\ CallsOf({"listReviews"}) # {}

\* The fetch of the change request failed with status 404.
PullNotFound ==
    \E j \in 1..Len(calls) : calls[j].op = "pulls.get" /\ calls[j].status = 404

\* C33: in a run whose pulls.get call failed with status 404, that call is
\* the last call of the run, the message that the pull request was not
\* found is logged, the run has issued no submitReview, no
\* updateReviewComment and no createReview call and has left the reviews
\* and comments of the host as they were at the call, and it ends by
\* returning.
C33_NotFoundEndsRunWithoutWrite ==
    PullNotFound =>
        /\ calls[Len(calls)].op = "pulls.get"
        /\ Len(calls) = 2
        /\ "error: pull request not found" \in dLog
        /\ CallsOf({"submitReview", "updateReviewComment", "createReview"}) = {}
        /\ pcD \in {"done", "idle"}

C33_Witness ==
    /\ PullNotFound
    /\ pcD = "idle"
    /\ runsDone >= 1
    /\ Len(countAfter) = runsDone

\* The submitReview call of the run failed.
SubmitFailed ==
    \E j \in 1..Len(calls) : calls[j].op = "submitReview" /\ calls[j].status # OK

StillPending(id) ==
    \E k \in 1..Len(reviews) : reviews[k].id = id /\ reviews[k].state = "PENDING"

\* C35: in a run whose submitReview call failed, the failure is logged as
\* a warning and the pending review stays open; the run goes on with the
\* lookup of the existing comments, and it does not end before it has
\* issued an update for every suggestion with an existing comment and the
\* createReview call for its new suggestions.
C35_FailedSubmitIsSwallowed ==
    SubmitFailed =>
        /\ "warning: failed to submit pending review" \in dLog
        /\ StillPending(pendingId)
        /\ pcD \notin {"reposGet", "pullsGet", "listPending", "submit"}
        /\ pcD # "listExisting" => Cardinality(CallsOf({"listReviews"})) = 2
        /\ pcD \in {"done", "idle"} =>
               /\ Cardinality(CallsOf({"updateReviewComment"})) = Len(ToUpdate)
               /\ newSuggestions # <<>> => CallsOf({"createReview"}) # {}

\* The review was created while the pending review was still open.
C35_Witness ==
    /\ SubmitFailed
    /\ StillPending(pendingId)
    /\ \E j \in CallsOf({"createReview"}) : calls[j].status = OK
    /\ CallsOf({"updateReviewComment"}) # {}

\* C25: every submitReview call of a run is for a review authored by the
\* login of the integration's token.
C25_SubmitsOnlyOwnPendingReview ==
    \A j \in 1..Len(calls) :
        calls[j].op = "submitReview" => AuthorOf(calls[j].id) = tokenLogin

\* The suggestion comments on a file that this integration created: those
\* of reviews authored by the login of its token.
OwnSuggestionComments(f) ==
    {c \in {comments[k] : k \in 1..Len(comments)} :
        c.marker /\ c.path = f /\ AuthorOf(c.review) = tokenLogin}

\* The loop of lines 374-397 has run and no review has been created yet.
Classified == pcD \in {"awaitUpdates", "create"}

NoCallFailed == \A j \in 1..Len(calls) : calls[j].status \in {0, OK}

UpdatesFor(s) ==
    {j \in 1..Len(calls) :
        calls[j].op = "updateReviewComment" /\ calls[j].text = s.suggestion}

InCreateBatch(s) == \E k \in 1..Len(newSuggestions) : newSuggestions[k] = s

\* C12: in a run without a failed call, once the suggestions are sorted
\* into updates and creates, a suggestion whose file has a suggestion
\* comment of this integration has an update of such a comment issued and
\* is not in the create batch; every other suggestion is in the create
\* batch and has no update issued.
C12_UpdateOrCreateByOwnComment ==
    (Classified /\ NoCallFailed) =>
        \A i \in 1..Len(prSuggestions) :
            LET s == prSuggestions[i]
            IN  IF OwnSuggestionComments(s.filePath) # {}
                THEN /\ \E j \in UpdatesFor(s) :
                           \E c \in OwnSuggestionComments(s.filePath) : calls[j].id = c.id
                     /\ ~InCreateBatch(s)
                ELSE /\ InCreateBatch(s)
                     /\ UpdatesFor(s) = {}

\* The same, for a token whose login is github.context.actor.
C12_HoldsWhenTokenIsActor ==
    tokenLogin = Actor => C12_UpdateOrCreateByOwnComment

\* Whatever the authors: each suggestion is either updated once or
\* created once, never both and never neither.
C12_NeitherBothNorDropped ==
    Classified =>
        \A i \in 1..Len(prSuggestions) :
            LET s == prSuggestions[i]
            IN  /\ InCreateBatch(s) <=> UpdatesFor(s) = {}
                /\ Cardinality(UpdatesFor(s)) <= 1
                /\ Cardinality({k \in 1..Len(newSuggestions) : newSuggestions[k] = s}) <= 1

UpdateCallsIssued == {j \in 1..Len(calls) : calls[j].op = "updateReviewComment"}

SomeUpdateFailed == \E j \in UpdateCallsIssued : calls[j].status \notin {0, OK}

\* C14: in a run in which an updateReviewComment call failed, the failure
\* is logged as a warning, an update was issued for every suggestion that
\* has an existing comment, and the run does not end without a
\* createReview call for its new suggestions.
C14_FailedUpdateBlocksNothing ==
    SomeUpdateFailed =>
        /\ "warning: failed to update suggestion comment" \in dLog
        /\ Cardinality(UpdateCallsIssued) = Len(ToUpdate)
        /\ pcD \in {"awaitUpdates", "create", "done", "idle"}
        /\ (pcD \in {"done", "idle"} /\ newSuggestions # <<>>) =>
               \E j \in 1..Len(calls) :
                   /\ calls[j].op = "createReview"
                   /\ calls[j].comments = ReviewComments

C14_Witness ==
    /\ SomeUpdateFailed
    /\ pcD = "done"
    /\ \E j \in 1..Len(calls) : calls[j].op = "createReview" /\ calls[j].status = OK

-----------------------------------------------------------------------------
(* The rewrite pipeline: createRewriteBranch followed by                   *)
(* createRewritePullRequest, as runAction calls them, and the host's       *)
(* branches and pull requests                                              *)

\* Bounds: the pipeline runs started, and the commits pushed to the head branch.
MaxRewriteRuns == 2
MaxHeadSha == 2

\* The workflow runs that can be in progress at once.
Procs == {"run1", "run2"}

\* github.context.issue.number of the runs.
PRNumbers == {7}

\* github.context.payload.pull_request.head.ref and .base.ref.
HeadRef == "feature"
BaseRef == "main"

\* The decimal digits of a positive number, as a template literal formats it.
RECURSIVE ToDecimal(_)
ToDecimal(n) ==
    IF n < 10 THEN <<Digits[n + 1]>>
    ELSE Append(ToDecimal(n \div 10), Digits[(n % 10) + 1])

RewritePrefix ==
    <<"a", "c", "r", "o", "l", "i", "n", "x", "-", "r", "e", "w", "r", "i", "t", "e", "-">>

\* A name that keeps only the last digit of the number.
BranchNameByLastDigit(prNumber) == RewritePrefix \o ToDecimal(prNumber % 10)

\* `acrolinx-rewrite-${prNumber}` (line 41).
BranchName(prNumber) == RewritePrefix \o ToDecimal(prNumber)

BranchNames == {BranchName(n) : n \in PRNumbers}

\* What rewriteFiles can return: the files it rewrote, in the order of the
\* files it was given (none, one of them, both).
RewriteResults == {<<>>, <<"a.md">>, <<"b.md">>, <<"a.md", "b.md">>}

\* The blob of a file on the head branch, and the blob of its rewritten
\* content (blobs are identified by content).
HeadBlob == 1
RewrittenBlob == 2

NoBranch == [exists |-> FALSE, sha |-> 0, files |-> [f \in Files |-> 0]]

\* The outputs setOutputs sets (src/src/types/index.ts, lines 146-148), by
\* the names action.yml gives them.
ActionOutputs == <<"event-type", "files-analyzed", "acrolinx-results">>

\* A path with a blob identifier (0: none): what getContent returned for a
\* path, what createOrUpdateFileContents was called with.
NoBlob == [path |-> "", sha |-> 0]

Idle ==
    [pc |-> "idle", prNumber |-> 0, branchExists |-> FALSE, rewrittenFiles |-> <<>>,
     baseSha |-> 0, idx |-> 0, fileSha |-> 0, url |-> 0,
     lookup |-> "none", found |-> 0, created |-> FALSE, createStatus |-> 0,
     written |-> 0, failedAt |-> 0, result |-> "none", log |-> {},
     outputs |-> <<>>, actionFailed |-> FALSE,
     lookedUp |-> NoBlob, sent |-> NoBlob]

RewriteStart ==
    /\ run = [p \in Procs |-> Idle]
    /\ headSha = 1
    /\ branches = [b \in BranchNames |-> NoBranch]
    /\ pulls = <<>>
    /\ refCreates = 0
    /\ runsStarted = 0
    /\ returned = <<>>
    /\ failedR = FALSE
    /\ overlapped = FALSE

Name(p) == BranchName(run[p].prNumber)

\* The catch of createRewriteBranch followed by handleError (lines 167-174
\* of runAction's module): the action is marked as failed.
ReturnNullFailingAction(p) ==
    /\ run' = [run EXCEPT ![p].pc = "done", ![p].url = 0, ![p].result = "null",
                          ![p].actionFailed = TRUE,
                          ![p].log = @ \cup {"error: Failed to create rewrite branch",
                                             "error: Action execution failed"}]
    /\ failedR' = TRUE

\* The catch of createRewriteBranch (lines 101-104) and of
\* createRewritePullRequest (lines 289-292): the error is logged, null is
\* returned; runAction then has no URL (lines 261-286).
ReturnNull(p) ==
    /\ run' = [run EXCEPT ![p].pc = "done", ![p].url = 0, ![p].result = "null",
                          ![p].log = @ \cup {"error: Failed to create rewrite branch",
                                             "info: No rewrite branch created"}]
    /\ failedR' = TRUE

\* A workflow run reaches the rewrite step of runAction (lines 243-259);
\* setOutputs has been called with the analysis results (line 234).
StartRewrite(p) ==
    /\ run[p].pc = "idle"
    /\ runsStarted < MaxRewriteRuns
    /\ \E n \in PRNumbers :
        run' = [run EXCEPT ![p] = [Idle EXCEPT !.pc = "getBranch", !.prNumber = n,
                                              !.outputs = ActionOutputs]]
    /\ runsStarted' = runsStarted + 1
    /\ overlapped' = (overlapped \/ \E q \in Procs \ {p} : run[q].pc # "idle")
    /\ UNCHANGED <<headSha, branches, pulls, refCreates, returned, failedR>>

\* The existence check (lines 45-58): any error counts as "absent".
CheckBranchExists(p) ==
    /\ run[p].pc = "getBranch"
    /\ \E res \in {OK, 404, 500} :
        /\ res = OK => branches[Name(p)].exists
        /\ res = 404 => ~branches[Name(p)].exists
        /\ run' = [run EXCEPT ![p].pc = "rewrite", ![p].branchExists = (res = OK)]
        /\ failedR' = (failedR \/ res = 500)
    /\ UNCHANGED <<headSha, branches, pulls, refCreates, runsStarted, returned, overlapped>>

\* rewriteFiles without the early return of lines 72-75.
RewriteFilesNoEarlyReturn(p) ==
    /\ run[p].pc = "rewrite"
    /\ \/ \E fs \in RewriteResults :
            /\ run' = [run EXCEPT ![p].rewrittenFiles = fs, ![p].pc = "getHead"]
            /\ UNCHANGED failedR
       \/ ReturnNull(p)
    /\ UNCHANGED <<headSha, branches, pulls, refCreates, runsStarted, returned, overlapped>>

\* rewriteFiles and the early return when nothing was rewritten (lines 60-75).
RewriteFiles(p) ==
    /\ run[p].pc = "rewrite"
    /\ \/ \E fs \in RewriteResults :
            /\ run' = IF fs = <<>>
                       THEN [run EXCEPT ![p].rewrittenFiles = fs, ![p].pc = "done",
                                        ![p].result = "null",
                                        ![p].log = @ \cup
                                            {"info: No files were successfully rewritten",
                                             "info: No rewrite branch created"}]
                       ELSE [run EXCEPT ![p].rewrittenFiles = fs, ![p].pc = "getHead"]
            /\ UNCHANGED failedR
       \/ ReturnNull(p)
    /\ UNCHANGED <<headSha, branches, pulls, refCreates, runsStarted, returned, overlapped>>

\* The commit of the base branch of the change request: none of the head
\* branch's commits.
BaseCommit == MaxHeadSha + 1

\* getBranch of the base (target) branch of the change request instead.
GetBaseBranch(p) ==
    /\ run[p].pc = "getHead"
    /\ \E res \in {OK, 500} :
        IF res = OK
        THEN /\ run' = [run EXCEPT ![p].baseSha = BaseCommit, ![p].pc = "setRef"]
             /\ UNCHANGED failedR
        ELSE ReturnNull(p)
    /\ UNCHANGED <<headSha, branches, pulls, refCreates, runsStarted, returned, overlapped>>

\* getBranch of the head branch, in createBranchFromBase (lines 118-123) and
\* in updateBranchToLatest (lines 151-156).
GetHeadBranch(p) ==
    /\ run[p].pc = "getHead"
    /\ \E res \in {OK, 500} :
        IF res = OK
        THEN /\ run' = [run EXCEPT ![p].baseSha = headSha, ![p].pc = "setRef"]
             /\ UNCHANGED failedR
        ELSE ReturnNull(p)
    /\ UNCHANGED <<headSha, branches, pulls, refCreates, runsStarted, returned, overlapped>>

\* The branch after its ref is set to a commit of the head branch.
BranchAt(sha) == [exists |-> TRUE, sha |-> sha, files |-> [f \in Files |-> HeadBlob]]

\* createRef in createBranchFromBase (lines 125-137); the host refuses to
\* create a ref that exists.
CreateBranchFromBase(p) ==
    /\ run[p].pc = "setRef"
    /\ ~run[p].branchExists
    /\ \E res \in {OK, 422, 500} :
        /\ res = OK => ~branches[Name(p)].exists
        /\ res = 422 => branches[Name(p)].exists
        /\ IF res = OK
           THEN /\ branches' = [branches EXCEPT ![Name(p)] = BranchAt(run[p].baseSha)]
                /\ refCreates' = refCreates + 1
                /\ run' = [run EXCEPT ![p].pc = "getContent", ![p].idx = 1]
                /\ UNCHANGED failedR
           ELSE /\ ReturnNull(p)
                /\ UNCHANGED <<branches, refCreates>>
    /\ UNCHANGED <<headSha, pulls, runsStarted, returned, overlapped>>

\* updateBranchToLatest without the update of the ref.
UpdateBranchWithoutReset(p) ==
    /\ run[p].pc = "setRef"
    /\ run[p].branchExists
    /\ run' = [run EXCEPT ![p].pc = "getContent", ![p].idx = 1]
    /\ UNCHANGED <<headSha, branches, pulls, refCreates, runsStarted, returned, failedR,
                   overlapped>>

\* updateBranchToLatest with a catch that does not re-throw: after a
\* failed updateRef the files are applied to the branch as it is.
UpdateBranchIgnoringFailure(p) ==
    /\ run[p].pc = "setRef"
    /\ run[p].branchExists
    /\ \E res \in {OK, 500} :
        /\ res = OK => branches[Name(p)].exists
        /\ run' = [run EXCEPT ![p].pc = "getContent", ![p].idx = 1]
        /\ IF res = OK
           THEN /\ branches' = [branches EXCEPT ![Name(p)] = BranchAt(run[p].baseSha)]
                /\ UNCHANGED failedR
           ELSE /\ failedR' = TRUE
                /\ UNCHANGED branches
    /\ UNCHANGED <<headSha, pulls, refCreates, runsStarted, returned, overlapped>>

\* updateRef in updateBranchToLatest (lines 158-173).
UpdateBranchToLatest(p) ==
    /\ run[p].pc = "setRef"
    /\ run[p].branchExists
    /\ \E res \in {OK, 500} :
        /\ res = OK => branches[Name(p)].exists
        /\ IF res = OK
           THEN /\ branches' = [branches EXCEPT ![Name(p)] = BranchAt(run[p].baseSha)]
                /\ run' = [run EXCEPT ![p].pc = "getContent", ![p].idx = 1]
                /\ UNCHANGED failedR
           ELSE /\ ReturnNull(p)
                /\ UNCHANGED branches
    /\ UNCHANGED <<headSha, pulls, refCreates, runsStarted, returned, overlapped>>

\* rewriteResult.filePath of the file the loop of applyRewrittenFiles is at.
CurrentPath(p) == run[p].rewrittenFiles[run[p].idx]

\* The file is on the branch.
OnBranch(name, f) == branches[name].exists /\ branches[name].files[f] # 0

\* The lookup with fileSha declared outside the loop: after a failed
\* lookup it still holds the identifier of the file before.
GetContentKeepingSha(p) ==
    /\ run[p].pc = "getContent"
    /\ \E res \in {OK, 404, 500} :
        /\ res = OK => OnBranch(Name(p), CurrentPath(p))
        /\ res = 404 => ~OnBranch(Name(p), CurrentPath(p))
        /\ run' = [run EXCEPT ![p].pc = "putFile",
                              ![p].fileSha = IF res = OK
                                             THEN branches[Name(p)].files[CurrentPath(p)]
                                             ELSE @,
                              ![p].lookedUp =
                                  [path |-> CurrentPath(p),
                                   sha  |-> IF res = OK
                                            THEN branches[Name(p)].files[CurrentPath(p)]
                                            ELSE 0]]
        /\ failedR' = (failedR \/ res = 500)
    /\ UNCHANGED <<headSha, branches, pulls, refCreates, runsStarted, returned, overlapped>>

\* getContent in applyRewrittenFiles (lines 186-211): any error counts as
\* "no such file" and leaves fileSha undefined (0).  The paths are those of
\* files, so the directory case of lines 197-203 does not arise.
GetContent(p) ==
    /\ run[p].pc = "getContent"
    /\ \E res \in {OK, 404, 500} :
        /\ res = OK => OnBranch(Name(p), CurrentPath(p))
        /\ res = 404 => ~OnBranch(Name(p), CurrentPath(p))
        /\ run' = [run EXCEPT ![p].pc = "putFile",
                              ![p].fileSha = IF res = OK
                                             THEN branches[Name(p)].files[CurrentPath(p)]
                                             ELSE 0,
                              ![p].lookedUp =
                                  [path |-> CurrentPath(p),
                                   sha  |-> IF res = OK
                                            THEN branches[Name(p)].files[CurrentPath(p)]
                                            ELSE 0]]
        /\ failedR' = (failedR \/ res = 500)
    /\ UNCHANGED <<headSha, branches, pulls, refCreates, runsStarted, returned, overlapped>>

\* The arguments path and sha of the write (lines 214-222).
WriteArgs(p) == [path |-> CurrentPath(p), sha |-> run[p].fileSha]

\* createOrUpdateFileContents in applyRewrittenFiles (lines 213-229); the
\* host accepts a write only with the blob the file has on the branch (none
\* for a new file).  After the last file createRewriteBranch returns its
\* data (lines 88-100) and runAction goes on to the pull request.
CreateOrUpdateFileContents(p) ==
    /\ run[p].pc = "putFile"
    /\ \E res \in {OK, 409, 500} :
        LET accepts == /\ branches[Name(p)].exists
                       /\ branches[Name(p)].files[CurrentPath(p)] = run[p].fileSha
        IN  /\ res = OK => accepts
            /\ res = 409 => ~accepts
            /\ IF res = OK
               THEN /\ branches' = [branches EXCEPT
                                       ![Name(p)].files[CurrentPath(p)] = RewrittenBlob]
                    /\ run' = IF run[p].idx = Len(run[p].rewrittenFiles)
                               THEN [run EXCEPT
                                        ![p].sent = WriteArgs(p),
                                        ![p].idx = run[p].idx + 1,
                                        ![p].written = run[p].written + 1,
                                        ![p].pc = "listPR",
                                        ![p].result = "data",
                                        ![p].log = @ \cup {"info: Applied rewrite",
                                                           "info: Rewrite branch ready"}]
                               ELSE [run EXCEPT
                                        ![p].sent = WriteArgs(p),
                                        ![p].idx = run[p].idx + 1,
                                        ![p].written = run[p].written + 1,
                                        ![p].pc = "getContent",
                                        ![p].log = @ \cup {"info: Applied rewrite"}]
                    /\ UNCHANGED failedR
               ELSE /\ run' = [run EXCEPT
                                  ![p].pc = "done", ![p].url = 0, ![p].result = "null",
                                  ![p].sent = WriteArgs(p),
                                  ![p].failedAt = run[p].idx,
                                  ![p].log = @ \cup
                                      {"error: Failed to apply rewritten files",
                                       "error: Failed to create rewrite branch",
                                       "info: No rewrite branch created"}]
                    /\ failedR' = TRUE
                    /\ UNCHANGED branches
    /\ UNCHANGED <<headSha, pulls, refCreates, runsStarted, returned, overlapped>>

\* pulls.list with state 'open' and head `${owner}:${branchName}`.
OpenPulls(name) == SelectSeq(pulls, LAMBDA pr : pr.state = "open" /\ pr.head = name)

\* createRewritePullRequest without the lookup of an existing pull request.
CreateWithoutLookup(p) ==
    /\ run[p].pc = "listPR"
    /\ run' = [run EXCEPT ![p].pc = "createPR"]
    /\ UNCHANGED <<headSha, branches, pulls, refCreates, runsStarted, returned, failedR,
                   overlapped>>

\* The lookup with its result ignored: a pull request is created anyway.
ListPullsIgnoringResult(p) ==
    /\ run[p].pc = "listPR"
    /\ \E res \in {OK, 500} :
        IF res = OK
        THEN /\ run' = IF OpenPulls(Name(p)) # <<>>
                       THEN [run EXCEPT ![p].pc = "createPR", ![p].lookup = "found",
                                        ![p].found = OpenPulls(Name(p))[1].number]
                       ELSE [run EXCEPT ![p].pc = "createPR", ![p].lookup = "empty"]
             /\ UNCHANGED failedR
        ELSE /\ run' = [run EXCEPT ![p].pc = "done", ![p].url = 0, ![p].lookup = "failed",
                                   ![p].log = @ \cup
                                       {"error: Failed to create rewrite pull request"}]
             /\ failedR' = TRUE
    /\ UNCHANGED <<headSha, branches, pulls, refCreates, runsStarted, returned, overlapped>>

\* A lookup whose failure is taken for an empty result.
ListPullsFailureAsEmpty(p) ==
    /\ run[p].pc = "listPR"
    /\ \E res \in {OK, 500} :
        IF res = OK
        THEN /\ run' = IF OpenPulls(Name(p)) # <<>>
                       THEN [run EXCEPT ![p].pc = "done", ![p].lookup = "found",
                                        ![p].found = OpenPulls(Name(p))[1].number,
                                        ![p].url = OpenPulls(Name(p))[1].number]
                       ELSE [run EXCEPT ![p].pc = "createPR", ![p].lookup = "empty"]
             /\ UNCHANGED failedR
        ELSE /\ run' = [run EXCEPT ![p].pc = "createPR", ![p].lookup = "failed"]
             /\ failedR' = TRUE
    /\ UNCHANGED <<headSha, branches, pulls, refCreates, runsStarted, returned, overlapped>>

\* The lookup of createRewritePullRequest (lines 264-275); lookup and
\* found keep what it returned.
ListPulls(p) ==
    /\ run[p].pc = "listPR"
    /\ \E res \in {OK, 500} :
        IF res = OK
        THEN /\ run' = IF OpenPulls(Name(p)) # <<>>
                       THEN [run EXCEPT ![p].pc = "done", ![p].lookup = "found",
                                        ![p].found = OpenPulls(Name(p))[1].number,
                                        ![p].url = OpenPulls(Name(p))[1].number]
                       ELSE [run EXCEPT ![p].pc = "createPR", ![p].lookup = "empty"]
             /\ UNCHANGED failedR
        ELSE /\ run' = [run EXCEPT ![p].pc = "done", ![p].url = 0, ![p].lookup = "failed",
                                   ![p].log = @ \cup
                                       {"error: Failed to create rewrite pull request"}]
             /\ failedR' = TRUE
    /\ UNCHANGED <<headSha, branches, pulls, refCreates, runsStarted, returned, overlapped>>

\* pulls.create with the base branch of the change request as base.
CreatePullOnBase(p) ==
    /\ run[p].pc = "createPR"
    /\ \E res \in {OK, 500} :
        IF res = OK
        THEN /\ pulls' = Append(pulls, [number |-> Len(pulls) + 1, head |-> Name(p),
                                        base |-> BaseRef, state |-> "open"])
             /\ run' = [run EXCEPT ![p].pc = "done", ![p].url = Len(pulls) + 1,
                                   ![p].created = TRUE, ![p].createStatus = res]
             /\ UNCHANGED failedR
        ELSE /\ run' = [run EXCEPT ![p].pc = "done", ![p].url = 0, ![p].created = TRUE,
                                   ![p].createStatus = res,
                                   ![p].log = @ \cup
                                       {"error: Failed to create rewrite pull request"}]
             /\ failedR' = TRUE
             /\ UNCHANGED pulls
    /\ UNCHANGED <<headSha, branches, refCreates, runsStarted, returned, overlapped>>

\* pulls.create (lines 277-288): head is the rewrite branch, base the head
\* branch of the change request.  A pull request's URL is its number;
\* created records that the call was issued.
CreatePull(p) ==
    /\ run[p].pc = "createPR"
    /\ \E res \in {OK, 500} :
        IF res = OK
        THEN /\ pulls' = Append(pulls, [number |-> Len(pulls) + 1, head |-> Name(p),
                                        base |-> HeadRef, state |-> "open"])
             /\ run' = [run EXCEPT ![p].pc = "done", ![p].url = Len(pulls) + 1,
                                   ![p].created = TRUE, ![p].createStatus = res]
             /\ UNCHANGED failedR
        ELSE /\ run' = [run EXCEPT ![p].pc = "done", ![p].url = 0, ![p].created = TRUE,
                                   ![p].createStatus = res,
                                   ![p].log = @ \cup
                                       {"error: Failed to create rewrite pull request"}]
             /\ failedR' = TRUE
             /\ UNCHANGED pulls
    /\ UNCHANGED <<headSha, branches, refCreates, runsStarted, returned, overlapped>>

\* The rewrite step of runAction ends (lines 261-293).
FinishRewrite(p) ==
    /\ run[p].pc = "done"
    /\ returned' = IF overlapped \/ failedR THEN returned
                   ELSE Append(returned, [url |-> run[p].url,
                                          rewrote |-> run[p].rewrittenFiles # <<>>,
                                          complete |-> TRUE,
                                          written |-> 0,
                                          files |-> <<>>])
    /\ run' = [run EXCEPT ![p] = Idle]
    /\ UNCHANGED <<headSha, branches, pulls, refCreates, runsStarted, failedR, overlapped>>

\* The workflow run is killed between two of its remote calls: it issues
\* no further call and returns nothing.
Interrupt(p) ==
    /\ run[p].pc \notin {"idle", "done"}
    /\ returned' = IF overlapped \/ failedR THEN returned
                   ELSE Append(returned, [url |-> 0,
                                          rewrote |-> run[p].rewrittenFiles # <<>>,
                                          complete |-> FALSE,
                                          written |-> run[p].written,
                                          files |-> run[p].rewrittenFiles])
    /\ run' = [run EXCEPT ![p] = Idle]
    /\ UNCHANGED <<headSha, branches, pulls, refCreates, runsStarted, failedR, overlapped>>

\* A commit is pushed to the head branch of the change request. The
\* pipeline sees the head branch only in its getBranch call, so a push is
\* taken when a run is about to issue that call.
PushToHead ==
    /\ headSha < MaxHeadSha
    /\ \E p \in Procs : run[p].pc = "getHead"
    /\ headSha' = headSha + 1
    /\ UNCHANGED <<run, branches, pulls, refCreates, runsStarted, returned, failedR,
                   overlapped>>

\* Every run started so far has finished and none was interrupted, no two
\* of them overlapped and no remote call failed.
CleanHistory ==
    /\ Len(returned) >= 1
    /\ \A i \in 1..Len(returned) : returned[i].complete
    /\ \A p \in Procs : run[p].pc = "idle"
    /\ ~overlapped
    /\ ~failedR

\* The finished runs in which rewriteFiles rewrote at least one file.
Rewrote == {i \in 1..Len(returned) : returned[i].rewrote}

\* C1: after any sequence of complete, non-overlapping runs of the rewrite
\* pipeline for the same change request in which no remote call failed, the
\* host never accepted a second creation of the rewrite branch, the branch
\* exists once a run has rewritten a file, at most one open pull request
\* has that branch as head, and all runs that rewrote a file returned the
\* URL of the same pull request.
C1_RewritePipelineIdempotent ==
    CleanHistory =>
        /\ refCreates <= 1
        /\ Rewrote # {} =>
              /\ refCreates = 1
              /\ \A b \in BranchNames : branches[b].exists
        /\ \A b \in BranchNames : Len(OpenPulls(b)) <= 1
        /\ \A i \in Rewrote :
              /\ returned[i].url # 0
              /\ \A j \in Rewrote : returned[j].url = returned[i].url

C1_Witness ==
    /\ CleanHistory
    /\ Len(returned) = 2
    /\ Rewrote = {1, 2}
    /\ returned[1].url # 0
    /\ returned[2].url = returned[1].url
    /\ headSha = 2

\* C16: a run issues pulls.create only after its own lookup returned no
\* open pull request with the rewrite branch as head; a run whose lookup
\* found one issues no create call and returns the URL of the first pull
\* request found, which is an open pull request of that branch.
C16_CreateOnlyAfterEmptyLookup ==
    \A p \in Procs :
        /\ (run[p].created \/ run[p].pc = "createPR") => run[p].lookup = "empty"
        /\ run[p].lookup = "found" =>
              /\ ~run[p].created
              /\ run[p].pc = "done"
              /\ run[p].url = run[p].found
              /\ \E k \in 1..Len(pulls) :
                    /\ pulls[k].number = run[p].found
                    /\ pulls[k].head = Name(p)
                    /\ pulls[k].state = "open"

C16_Witness ==
    \E p \in Procs :
        /\ run[p].lookup = "found"
        /\ run[p].pc = "done"
        /\ overlapped
        /\ Len(pulls) = 1

\* C17: every pull request on the host, all of them created by
\* createRewritePullRequest, has a rewrite branch as head and the head
\* branch of the change request as base, never its base branch.
C17_PullRequestTargetsHeadBranch ==
    \A k \in 1..Len(pulls) :
        /\ pulls[k].head \in BranchNames
        /\ pulls[k].base = HeadRef
        /\ pulls[k].base # BaseRef

C17_Witness ==
    /\ Len(pulls) = 2
    /\ \E p \in Procs : run[p].pc = "done" /\ run[p].created /\ run[p].url = 2

\* A file write of the run failed.
WriteFailed(p) == run[p].failedAt # 0

\* After a failed file write the run issues no further call: it is at its
\* return, its loop stands at the file whose write failed, and the branch
\* and the pull requests are still there.
C18_AbortsAndKeepsRemoteState ==
    \A p \in Procs :
        WriteFailed(p) =>
            /\ run[p].pc = "done"
            /\ run[p].idx = run[p].failedAt
            /\ run[p].written = run[p].failedAt - 1
            /\ ~run[p].created /\ run[p].lookup = "none"
            /\ branches[Name(p)].exists

\* C18: after a failed file write the run issues no further file lookup
\* or write, the branch still exists, and when files were written before
\* the failure the run reports them: it does not report the total failure
\* of the branch step.
C18_FailedWriteReportsPartialSuccess ==
    /\ C18_AbortsAndKeepsRemoteState
    /\ \A p \in Procs :
          (WriteFailed(p) /\ run[p].written > 0) =>
              /\ run[p].result # "null"
              /\ "error: Failed to create rewrite branch" \notin run[p].log
              /\ "info: No rewrite branch created" \notin run[p].log

\* The run has issued a call that changes the rewrite branch or the pull
\* requests (createRef, updateRef, a file write, pulls.create).
Mutated(p) ==
    \/ run[p].pc \in {"getContent", "putFile", "listPR", "createPR"}
    \/ run[p].written > 0
    \/ run[p].failedAt > 0
    \/ run[p].lookup # "none"
    \/ run[p].created

\* A remote call of the run's pipeline failed: the head lookup, the
\* creation or reset of the branch or a file write (all after rewriteFiles
\* returned files), the pull-request lookup or the pull-request creation.
PipelineFailed(p) ==
    \/ run[p].result = "null" /\ run[p].rewrittenFiles # <<>>
    \/ run[p].lookup = "failed"
    \/ run[p].created /\ run[p].createStatus # OK

\* The messages a failure is logged with (logError and core.info).
FailureMessages ==
    {"error: Failed to create rewrite branch", "error: Failed to create rewrite pull request"}

\* C24: in every state of a run that is in the rewrite step, the three
\* outputs are set as they were before the step (so they are set before
\* any call that changes the rewrite branch or the pull requests) and the
\* action is not marked as failed; a run in which a call of the pipeline
\* failed is at the end of the step with the failure logged.
C24_RewriteFailureIsNotFatal ==
    \A p \in Procs :
        /\ run[p].pc # "idle" =>
               /\ run[p].outputs = ActionOutputs
               /\ ~run[p].actionFailed
        /\ PipelineFailed(p) =>
               /\ run[p].pc = "done"
               /\ run[p].url = 0
               /\ run[p].log \cap FailureMessages # {}

\* A run whose second file write failed, after the branch was changed.
C24_Witness ==
    \E p \in Procs :
        /\ PipelineFailed(p)
        /\ Mutated(p)
        /\ run[p].written = 1
        /\ run[p].failedAt = 2
        /\ run[p].outputs = ActionOutputs
        /\ ~run[p].actionFailed

\* createRewritePullRequest returned null: its catch logged the error
\* (lines 289-292) and the run has no URL.
ReturnedNullUrl(p) ==
    /\ run[p].pc = "done"
    /\ run[p].url = 0
    /\ "error: Failed to create rewrite pull request" \in run[p].log

\* C23: a run whose pulls.list call failed issues no pulls.create call and
\* createRewritePullRequest returns null; a run whose pulls.create call
\* failed (issued after an empty lookup) returns null as well.
C23_FailedLookupOrCreateReturnsNull ==
    \A p \in Procs :
        /\ run[p].lookup = "failed" =>
               /\ ~run[p].created
               /\ ReturnedNullUrl(p)
        /\ (run[p].created /\ run[p].createStatus # OK) =>
               /\ run[p].lookup = "empty"
               /\ ReturnedNullUrl(p)

\* One run ended after a failed lookup, the other after a failed create.
C23_Witness ==
    \E p, q \in Procs :
        /\ run[p].lookup = "failed" /\ run[p].pc = "done"
        /\ run[q].created /\ run[q].createStatus # OK /\ run[q].pc = "done"

\* The branch a single uninterrupted run leaves behind: the commit of the
\* head branch it looked up, with the files it rewrote replaced.
BranchAfter(p) ==
    [exists |-> TRUE,
     sha    |-> run[p].baseSha,
     files  |-> [f \in Files |->
                    IF \E k \in 1..Len(run[p].rewrittenFiles) : run[p].rewrittenFiles[k] = f
                    THEN RewrittenBlob ELSE HeadBlob]]

\* The run has gone through all its calls and returns a pull request.
Completed(p) == run[p].pc = "done" /\ run[p].result = "data" /\ run[p].url # 0

\* C19: when no call failed and no two runs overlapped, a run that has
\* gone through all its calls leaves the remote in the state a single
\* uninterrupted run leaves, whatever runs were interrupted before it and
\* wherever they were interrupted: the branch holds the head content with
\* this run's rewritten files, and exactly one open pull request has the
\* branch as head, the one the run returns.
C19_CompleteRunAfterInterruptedRun ==
    (~failedR /\ ~overlapped) =>
        \A p \in Procs :
            Completed(p) =>
                /\ branches[Name(p)] = BranchAfter(p)
                /\ Len(OpenPulls(Name(p))) = 1
                /\ OpenPulls(Name(p))[1].number = run[p].url

C19_Witness ==
    /\ ~failedR /\ ~overlapped
    /\ Len(returned) = 1
    /\ ~returned[1].complete
    /\ returned[1].written = 1
    /\ Len(returned[1].files) = 2
    /\ Len(pulls) = 1
    /\ \E p \in Procs : Completed(p) /\ run[p].rewrittenFiles = returned[1].files

\* The run is in or past the loop of applyRewrittenFiles (lines 85-100).
ApplyingOrApplied(p) ==
    \/ run[p].pc \in {"getContent", "putFile", "listPR", "createPR"}
    \/ run[p].pc = "done" /\ (run[p].result = "data" \/ run[p].failedAt # 0)

\* The branch at the commit the run read from the head branch, with the
\* files the run has written so far replaced.
BranchSoFar(p) ==
    [exists |-> TRUE,
     sha    |-> run[p].baseSha,
     files  |-> [f \in Files |->
                    IF \E k \in 1..run[p].written : run[p].rewrittenFiles[k] = f
                    THEN RewrittenBlob ELSE HeadBlob]]

\* C29: a run that found the rewrite branch reads the head branch's
\* current commit, and enters the loop over the rewritten files only in
\* the step in which the host sets the branch ref to that commit, so no
\* file lookup or write of the run precedes the reset; when no other run
\* is in progress meanwhile, the branch then holds the head content with
\* exactly the files this run has written replaced, and after a successful
\* run exactly the files the run rewrote, whatever earlier runs had written.
C29_ExistingBranchResetBeforeFiles ==
    [][\A p \in Procs :
          run'[p].branchExists =>
              /\ (run[p].pc = "getHead" /\ run'[p].pc = "setRef") =>
                     run'[p].baseSha = headSha
              /\ (~ApplyingOrApplied(p) /\ ApplyingOrApplied(p)') =>
                     /\ run[p].pc = "setRef"
                     /\ run'[p].pc = "getContent" /\ run'[p].written = 0
                     /\ branches'[Name(p)] = BranchAt(run[p].baseSha)
              /\ (~overlapped' /\ ApplyingOrApplied(p)') =>
                     /\ branches'[Name(p)] = BranchSoFar(p)'
                     /\ run'[p].result = "data" =>
                            run'[p].written = Len(run'[p].rewrittenFiles)]_rewriteVars

\* A successful run on an existing branch, after a run that was interrupted
\* when it had written a.md and after a push to the head branch: the run
\* rewrote b.md only, and a.md is back at the head content.
C29_Witness ==
    /\ ~overlapped /\ ~failedR
    /\ Len(returned) = 1
    /\ ~returned[1].complete
    /\ returned[1].written >= 1
    /\ returned[1].files[1] = "a.md"
    /\ headSha = 2
    /\ \E p \in Procs :
           /\ run[p].branchExists
           /\ run[p].pc = "done" /\ run[p].result = "data"
           /\ run[p].rewrittenFiles = <<"b.md">>
           /\ branches[Name(p)].sha = 2
           /\ branches[Name(p)].files["a.md"] = HeadBlob
           /\ branches[Name(p)].files["b.md"] = RewrittenBlob

\* C30: in a run whose existence check reported the branch absent and
\* that rewrote a file, the commit read for the new branch is the head
\* branch's current commit, not the base branch's; the run enters the loop
\* over the rewritten files only in the step in which the host creates the
\* branch at that commit; no other step of the run creates a ref, and no
\* step of the run moves the branch ref otherwise (the run updates no ref).
C30_AbsentBranchCreatedOnceAtHead ==
    [][\A p \in Procs :
          (~run'[p].branchExists /\ run'[p].rewrittenFiles # <<>>) =>
              /\ (run[p].pc = "getHead" /\ run'[p].pc = "setRef") =>
                     /\ run'[p].baseSha = headSha
                     /\ run'[p].baseSha # BaseCommit
              /\ (~ApplyingOrApplied(p) /\ ApplyingOrApplied(p)') =>
                     /\ run[p].pc = "setRef"
                     /\ ~branches[Name(p)].exists
                     /\ refCreates' = refCreates + 1
                     /\ branches'[Name(p)] = BranchAt(run[p].baseSha)
              /\ (run'[p] # run[p] /\ run[p].pc # "setRef") =>
                     refCreates' = refCreates
              /\ (run'[p] # run[p] /\ refCreates' = refCreates) =>
                     branches'[Name(p)].sha = branches[Name(p)].sha]_rewriteVars

\* A run that found no branch, created it at the commit pushed to the head
\* branch before its lookup, and wrote its files.
C30_Witness ==
    /\ refCreates = 1
    /\ headSha = 2
    /\ \E p \in Procs :
           /\ ~run[p].branchExists
           /\ run[p].pc = "done" /\ run[p].result = "data"
           /\ branches[Name(p)].sha = 2
           /\ branches[Name(p)].sha # BaseCommit

\* A run whose existence check failed although the branch exists: its
\* createRef was refused and it returned null without writing a file.
C30_RefusedCreate ==
    /\ refCreates = 1
    /\ \E p \in Procs :
           /\ ~run[p].branchExists
           /\ run[p].rewrittenFiles # <<>>
           /\ run[p].pc = "done" /\ run[p].result = "null"
           /\ run[p].baseSha # 0
           /\ run[p].written = 0 /\ run[p].failedAt = 0
           /\ \A q \in Procs \ {p} : run[q].pc = "idle"
           /\ ~overlapped

\* C34: at no time does the host hold more than one open pull request
\* whose head is the rewrite branch, however the runs interleave.
C34_AtMostOneOpenPullWhenInterleaved ==
    \A b \in BranchNames : Len(OpenPulls(b)) <= 1

\* C34 for runs of which no two were in progress at the same time.
C34_HoldsWithoutOverlap ==
    ~overlapped => \A b \in BranchNames : Len(OpenPulls(b)) <= 1

\* Two runs each found no open pull request and each created one.
C34_BothCreated ==
    /\ overlapped
    /\ \A p \in Procs : run[p].lookup = "empty" /\ run[p].createStatus = OK
    /\ \E b \in BranchNames : Len(OpenPulls(b)) = 2

\* C38: a step of a run that has rewritten no file leaves the host's
\* branches and pull requests as they are; a run in which rewriteFiles
\* returned no file is at its return with null and no URL, and it has read
\* no head commit, written no file, looked up no pull request and created
\* none.
C38_NothingRewrittenChangesNothing ==
    [][\A p \in Procs :
          /\ (/\ run'[p] # run[p]
              /\ run[p].rewrittenFiles = <<>>
              /\ run'[p].rewrittenFiles = <<>>) =>
                 /\ branches' = branches
                 /\ pulls' = pulls
                 /\ refCreates' = refCreates
          /\ (run'[p].pc \notin {"idle", "getBranch", "rewrite"}
              /\ run'[p].rewrittenFiles = <<>>) =>
                 /\ run'[p].pc = "done"
                 /\ run'[p].result = "null" /\ run'[p].url = 0
                 /\ run'[p].baseSha = 0 /\ run'[p].written = 0
                 /\ run'[p].sent = NoBlob
                 /\ run'[p].lookup = "none" /\ ~run'[p].created
                 /\ "info: No rewrite branch created" \in run'[p].log]_rewriteVars

\* A run on an existing branch with an open pull request rewrote nothing
\* and returned; branch and pull request are those of the run before.
C38_Witness ==
    /\ ~overlapped
    /\ Len(returned) = 1 /\ returned[1].url # 0
    /\ Len(pulls) = 1
    /\ \E p \in Procs :
           /\ run[p].pc = "done"
           /\ run[p].branchExists
           /\ "info: No files were successfully rewritten" \in run[p].log
           /\ branches[Name(p)].exists

\* C31: a write of a rewritten file is issued from the state its lookup
\* left: the lookup was for the same path on the rewrite branch, and the
\* write is called with that path and exactly the blob identifier the
\* lookup returned, none when the lookup found no file or failed; a run
\* starts without any identifier, and only a write changes what was sent.
C31_WriteCarriesLookedUpBlob ==
    [][\A p \in Procs :
          /\ (run[p].pc = "idle" /\ run'[p].pc # "idle") =>
                 run'[p].lookedUp = NoBlob /\ run'[p].sent = NoBlob
          /\ (run[p].pc = "getContent" /\ run'[p].pc = "putFile") =>
                 /\ run'[p].lookedUp.path = CurrentPath(p)
                 /\ run'[p].lookedUp.sha \in {0, branches[Name(p)].files[CurrentPath(p)]}
                 /\ ~OnBranch(Name(p), CurrentPath(p)) => run'[p].lookedUp.sha = 0
                 /\ run'[p].sent = run[p].sent
          /\ (run[p].pc = "putFile" /\ run'[p].pc \notin {"putFile", "idle"}) =>
                 /\ run[p].lookedUp.path = CurrentPath(p)
                 /\ run'[p].sent = run[p].lookedUp
          /\ (run'[p].sent # run[p].sent /\ run'[p].pc # "idle") =>
                 run[p].pc = "putFile"]_rewriteVars

\* A run that wrote both files, each with the identifier its lookup returned.
C31_Witness ==
    \E p \in Procs :
        /\ run[p].pc = "listPR"
        /\ run[p].written = 2
        /\ run[p].sent = [path |-> "b.md", sha |-> HeadBlob]
        /\ run[p].lookedUp = run[p].sent

\* A write issued without an identifier after a lookup that returned none.
C31_WriteWithoutIdentifier ==
    \E p \in Procs :
        /\ run[p].sent.path # ""
        /\ run[p].sent.sha = 0
        /\ run[p].lookedUp = run[p].sent

-----------------------------------------------------------------------------
(* The comments of the review that createPRCommitSuggestions creates: the  *)
(* reconciliation version (lines 405-428) and the version that restricts   *)
(* suggestions to changed lines (lines 901-983)                            *)

\* Bound: the number of suggestions to create.
MaxPending == 101

\* const maxComments = 100 (line 961).
maxComments == 100

NoCall == [issued |-> FALSE, comments |-> <<>>]

Logged(msg, n) == [msg |-> msg, count |-> n]

\* n suggestions to create, all for one file.
PendingLists == {SuggestionsOf([k \in 1..n |-> "a.md"]) : n \in 0..MaxPending}

BatchStart ==
    /\ batchVersion \in {"reconcile", "changedLines", "wholeFile"}
    /\ pendingCreates \in PendingLists
    /\ reviewCall = NoCall
    /\ batchLog = {}
    /\ pcB = "start"

\* newSuggestions.map(...) (lines 409-413).
CommentsFor(ss) ==
    [k \in 1..Len(ss) |->
        [path |-> ss[k].filePath, position |-> 1, text |-> ss[k].suggestion]]

\* The reconciliation version: every new suggestion goes into the one
\* createReview call (lines 405-443).
CreateNewSuggestions ==
    /\ pcB = "start"
    /\ batchVersion = "reconcile"
    /\ IF Len(pendingCreates) > 0
       THEN /\ reviewCall' = [issued |-> TRUE, comments |-> CommentsFor(pendingCreates)]
            /\ batchLog' = batchLog \cup
                   {Logged("info: Creating new suggestions", Len(pendingCreates))}
       ELSE /\ UNCHANGED reviewCall
            /\ batchLog' = batchLog \cup {Logged("info: No new suggestions to create", 0)}
    /\ pcB' = "done"
    /\ UNCHANGED <<batchVersion, pendingCreates>>

\* What parseGitHubDiff can return for the file of the suggestions
\* (addedLinesMap, lines 889-890): no entry, or the added lines of the file.
AddedLinesMaps ==
    {[has |-> FALSE, lines |-> {}]} \cup
    {[has |-> TRUE, lines |-> ls] : ls \in {{}, {2}, 2..(MaxPending + 1)}}

\* createCommitSuggestions(results, prChangedLines) of this version (lines
\* 639-763), for results whose rewrite differs from the original at
\* lineNumber: a result of a file with an entry yields a suggestion if its
\* line is among the changed lines (661-690), a result of a file without
\* an entry yields its suggestion by the diff logic (691-753).
createCommitSuggestionsForLines(results, prChangedLines) ==
    SelectSeq(results,
              LAMBDA r : ~prChangedLines.has \/ r.lineNumber \in prChangedLines.lines)

\* The call with the suggestions passed in as its results.
SuggestionsFromInput(addedLinesMap) ==
    createCommitSuggestionsForLines(pendingCreates, addedLinesMap)

\* createCommitSuggestions([], addedLinesMap) (lines 904-907): the results
\* passed are the empty list.
SuggestionsForChangedLines(addedLinesMap) ==
    createCommitSuggestionsForLines(<<>>, addedLinesMap)

\* suggestionsForChangedLines.map(...) (lines 953-957).
LineCommentsFor(ss) ==
    [k \in 1..Len(ss) |->
        [path |-> ss[k].filePath, line |-> ss[k].lineNumber, text |-> ss[k].suggestion]]

\* comments.splice(maxComments) (lines 962-967).
Limited(cs) == IF Len(cs) > maxComments THEN SubSeq(cs, 1, maxComments) ELSE cs

\* The changed-lines version (lines 901-983).
CreateForChangedLines ==
    /\ pcB = "start"
    /\ batchVersion = "changedLines"
    /\ \E addedLinesMap \in AddedLinesMaps :
       LET valid == SuggestionsForChangedLines(addedLinesMap)
           cs    == LineCommentsFor(valid)
       IN  IF Len(valid) = 0
           THEN /\ UNCHANGED reviewCall
                /\ batchLog' = batchLog \cup
                      {Logged("info: No suggestions for added or modified lines in this PR", 0)}
           ELSE /\ reviewCall' = [issued |-> TRUE, comments |-> Limited(cs)]
                /\ batchLog' = batchLog \cup
                      (IF Len(cs) > maxComments
                       THEN {Logged("warning: Too many suggestions", Len(cs))} ELSE {})
    /\ pcB' = "done"
    /\ UNCHANGED <<batchVersion, pendingCreates>>

\* suggestions.map(...) of the version that creates all suggestions in one
\* review (lines 1281-1285).
PositionedCommentsFor(ss) ==
    [k \in 1..Len(ss) |->
        [path |-> ss[k].filePath, position |-> ss[k].lineNumber, text |-> ss[k].suggestion]]

\* The version that creates all suggestions in one review (lines
\* 1277-1310).
CreateAllSuggestions ==
    /\ pcB = "start"
    /\ batchVersion = "wholeFile"
    /\ IF Len(pendingCreates) > 0
       THEN /\ reviewCall' = [issued |-> TRUE,
                              comments |-> PositionedCommentsFor(pendingCreates)]
            /\ batchLog' = batchLog \cup
                   {Logged("info: Creating review with suggestions", Len(pendingCreates))}
       ELSE /\ UNCHANGED reviewCall
            /\ batchLog' = batchLog \cup {Logged("info: No suggestions to create", 0)}
    /\ pcB' = "done"
    /\ UNCHANGED <<batchVersion, pendingCreates>>

\* C13: the createReview call carries at most 100 comments, and when more
\* than 100 suggestions are to be created a warning that names the count
\* is logged.
C13_AtMostHundredCommentsPerReview ==
    /\ reviewCall.issued => Len(reviewCall.comments) <= maxComments
    /\ (pcB = "done" /\ Len(pendingCreates) > maxComments) =>
           Logged("warning: Too many suggestions", Len(pendingCreates)) \in batchLog

\* Comment k of the createReview call is for suggestion k, on its file and
\* at its lineNumber.
AnchoredAtSuggestions ==
    /\ Len(reviewCall.comments) = Len(pendingCreates)
    /\ \A k \in 1..Len(pendingCreates) :
          /\ reviewCall.comments[k].path = pendingCreates[k].filePath
          /\ reviewCall.comments[k].position = pendingCreates[k].lineNumber

\* C27: every comment of a createReview call has the path of its
\* suggestion and is anchored at the position computed for the suggestion
\* (its lineNumber), in the reconciliation version and in the version that
\* creates all suggestions in one review.
C27_CommentAnchoredAtSuggestionPosition ==
    (reviewCall.issued /\ batchVersion \in {"reconcile", "wholeFile"}) =>
        AnchoredAtSuggestions

\* C27 for the version that creates all suggestions in one review.
C27_HoldsInWholeFileVersion ==
    (reviewCall.issued /\ batchVersion = "wholeFile") => AnchoredAtSuggestions

\* A review of the version that creates all suggestions in one review,
\* with comments at different positions.
C27_PositionsDiffer ==
    /\ reviewCall.issued
    /\ batchVersion = "wholeFile"
    /\ Len(reviewCall.comments) >= 2
    /\ reviewCall.comments[1].position # reviewCall.comments[2].position

-----------------------------------------------------------------------------
(* The name of the rewrite branch, as two workflow runs compute it from    *)
(* their contexts (createRewriteBranch, lines 34-41)                       *)

\* Bound: the change-request numbers.
MaxPRNumber == 12

Times == {"monday", "tuesday"}

Contexts ==
    [prNumber : 1..MaxPRNumber, sha : 1..MaxHeadSha, now : Times,
     rewrittenFiles : {<<"a.md">>, <<"b.md">>}]

NamingStart ==
    /\ nameCtx \in [Procs -> Contexts]
    /\ nameOf = [p \in Procs |-> <<>>]

\* const prNumber = github.context.issue.number; const branchName = ... (lines 35-41).
ComputeBranchName(p) ==
    /\ nameOf[p] = <<>>
    /\ nameOf' = [nameOf EXCEPT ![p] = BranchName(nameCtx[p].prNumber)]
    /\ UNCHANGED nameCtx

\* C15: two runs compute the same rewrite branch name exactly when they
\* run for the same change-request number, whatever their head commits,
\* rewritten files and times.
C15_BranchNameByChangeRequestOnly ==
    \A p, q \in Procs :
        (nameOf[p] # <<>> /\ nameOf[q] # <<>>) =>
            (nameOf[p] = nameOf[q] <=> nameCtx[p].prNumber = nameCtx[q].prNumber)

C15_Witness ==
    /\ nameOf["run1"] # <<>>
    /\ nameOf["run1"] = nameOf["run2"]
    /\ nameCtx["run1"].prNumber = 11
    /\ nameCtx["run1"].sha # nameCtx["run2"].sha
    /\ nameCtx["run1"].now # nameCtx["run2"].now
    /\ nameCtx["run1"].rewrittenFiles # nameCtx["run2"].rewrittenFiles

-----------------------------------------------------------------------------
(* cleanupOldRewriteBranches (src/unnamed/part_001, lines 332-374)          *)

\* Bound: the number of branches acrolinx-rewrite-<n> of the repository.
MaxBranches == 31

\* Bound: the day on which the clean-up runs.
Today == 10

\* listBranches is called with owner and repo only (lines 341-344), and no
\* further page is requested: the host answers with its first page, which
\* holds 30 branches when per_page is not given.
PerPage == 30

\* A Date: new Date(x) of a date string, and the Invalid Date of new Date('').
DateOf(t) == [valid |-> TRUE, time |-> t]

InvalidDate == [valid |-> FALSE, time |-> 0]

\* a < b of two Dates: false when either is invalid (NaN).
Before(a, b) == a.valid /\ b.valid /\ a.time < b.time

\* The commit dates tried, around the two windows: 8, 7, 6 days and no day
\* before the clean-up, and a commit without author date.
SampleDates ==
    {InvalidDate, DateOf(Today - 8), DateOf(Today - 7), DateOf(Today - 6), DateOf(Today)}

Windows == {1, 7}

\* Branches that are not rewrite branches, all with an old last commit:
\* main, acrolinx-rewrites, x-acrolinx-rewrite-7.
OtherBranches ==
    << [name |-> <<"m", "a", "i", "n">>, date |-> DateOf(Today - 8), protected |-> TRUE],
       [name |-> SubSeq(RewritePrefix, 1, Len(RewritePrefix) - 1) \o <<"s">>,
        date |-> DateOf(Today - 8), protected |-> FALSE],
       [name |-> <<"x", "-">> \o BranchName(7), date |-> DateOf(Today - 8),
        protected |-> FALSE] >>

\* The rewrite branches the host protects against deletion: none, the
\* first or the second.
ProtectedSets == {{}, {1}, {2}}

\* n rewrite branches, with last commits of dates d1 and d2 in turn.
NumberedBranches(n, d1, d2, prot) ==
    [k \in 1..n |-> [name |-> BranchName(k), date |-> IF k % 2 = 1 THEN d1 ELSE d2,
                     protected |-> k \in prot]]

Repositories ==
    {OtherBranches \o NumberedBranches(n, d1, d2, prot) :
        n \in 0..MaxBranches, d1 \in SampleDates, d2 \in SampleDates,
        prot \in ProtectedSets}

SweepLogged(msg, name) == [msg |-> msg, branch |-> name]

\* A remote call of the clean-up, as the host saw it.
SweepCall(op, ref, status) == [op |-> op, ref |-> ref, status |-> status]

SweepStart ==
    /\ repoBranches \in Repositories
    /\ maxAgeDays \in Windows
    /\ cutoffDate = InvalidDate
    /\ rewriteBranches = <<>>
    /\ sweepIdx = 0
    /\ commitDate = InvalidDate
    /\ deletedRefs = {}
    /\ sweepLog = {}
    /\ sweepCalls = <<>>
    /\ sweepFailed = FALSE
    /\ pcW = "listBranches"

\* The outer catch (lines 371-373).
CatchSweep ==
    /\ sweepLog' = sweepLog \cup
           {SweepLogged("error: Failed to cleanup old rewrite branches", <<>>)}
    /\ sweepFailed' = TRUE
    /\ pcW' = "done"

\* What the host answers to listBranches: the first page of the branches
\* it holds.
ListedPage ==
    LET held == SelectSeq(repoBranches, LAMBDA b : b.name \notin deletedRefs)
    IN  SubSeq(held, 1, IF Len(held) < PerPage THEN Len(held) ELSE PerPage)

\* branch.name.startsWith('acrolinx-rewrite-') (lines 346-348).
IsRewriteBranch(branch) == StartsWith(branch.name, RewritePrefix)

\* The loop goes to the next branch, or ends (line 350).
NextBranch ==
    /\ sweepIdx' = sweepIdx + 1
    /\ pcW' = IF sweepIdx + 1 > Len(rewriteBranches) THEN "done" ELSE "getCommit"

\* A listing whose failure is not noticed: the loop runs although the call
\* failed.
ListBranchesIgnoringFailure ==
    /\ pcW = "listBranches"
    /\ cutoffDate' = DateOf(Today - maxAgeDays)
    /\ \E res \in Outcomes :
      /\ sweepCalls' = Append(sweepCalls, SweepCall("listBranches", <<>>, res))
      /\ rewriteBranches' = SelectSeq(ListedPage, IsRewriteBranch)
      /\ sweepIdx' = 1
      /\ pcW' = IF SelectSeq(ListedPage, IsRewriteBranch) = <<>>
                THEN "done" ELSE "getCommit"
      /\ sweepFailed' = (res # OK)
      /\ UNCHANGED sweepLog
    /\ UNCHANGED <<repoBranches, maxAgeDays, commitDate, deletedRefs>>

\* cutoffDate, the listBranches call and the filter (lines 337-348).
ListBranches ==
    /\ pcW = "listBranches"
    /\ cutoffDate' = DateOf(Today - maxAgeDays)
    /\ \E res \in Outcomes :
      /\ sweepCalls' = Append(sweepCalls, SweepCall("listBranches", <<>>, res))
      /\ IF res = OK
        THEN /\ rewriteBranches' = SelectSeq(ListedPage, IsRewriteBranch)
             /\ sweepIdx' = 1
             /\ pcW' = IF SelectSeq(ListedPage, IsRewriteBranch) = <<>>
                       THEN "done" ELSE "getCommit"
             /\ UNCHANGED <<sweepLog, sweepFailed>>
        ELSE /\ CatchSweep
             /\ UNCHANGED <<rewriteBranches, sweepIdx>>
    /\ UNCHANGED <<repoBranches, maxAgeDays, commitDate, deletedRefs>>

\* getCommit with a catch of its own: after a failure the loop goes on to
\* the next branch.
GetCommitSkippingFailure ==
    /\ pcW = "getCommit"
    /\ \E res \in Outcomes :
      /\ sweepCalls' = Append(sweepCalls,
                             SweepCall("getCommit", rewriteBranches[sweepIdx].name, res))
      /\ IF res = OK
        THEN /\ commitDate' = rewriteBranches[sweepIdx].date
             /\ IF Before(rewriteBranches[sweepIdx].date, cutoffDate)
                THEN pcW' = "deleteRef" /\ UNCHANGED sweepIdx
                ELSE NextBranch
             /\ UNCHANGED <<sweepLog, sweepFailed>>
        ELSE /\ NextBranch
             /\ sweepFailed' = TRUE
             /\ UNCHANGED <<commitDate, sweepLog>>
    /\ UNCHANGED <<repoBranches, maxAgeDays, cutoffDate, rewriteBranches, deletedRefs>>

\* getCommit for the branch and the comparison with cutoffDate (lines
\* 351-358); a failure of the call ends the loop in the outer catch.
GetCommit ==
    /\ pcW = "getCommit"
    /\ \E res \in Outcomes :
      /\ sweepCalls' = Append(sweepCalls,
                             SweepCall("getCommit", rewriteBranches[sweepIdx].name, res))
      /\ IF res = OK
        THEN /\ commitDate' = rewriteBranches[sweepIdx].date
             /\ IF Before(rewriteBranches[sweepIdx].date, cutoffDate)
                THEN pcW' = "deleteRef" /\ UNCHANGED sweepIdx
                ELSE NextBranch
             /\ UNCHANGED <<sweepLog, sweepFailed>>
        ELSE /\ CatchSweep
             /\ UNCHANGED <<commitDate, sweepIdx>>
    /\ UNCHANGED <<repoBranches, maxAgeDays, cutoffDate, rewriteBranches, deletedRefs>>

\* What the host answers to deleteRef: it refuses to delete a protected
\* branch and deletes any other.
DeleteOutcomes(branch) == IF branch.protected THEN FailStatus ELSE {OK}

\* deleteRef without a catch of its own: its failure ends the loop in the
\* outer catch.
DeleteRefWithoutCatch ==
    /\ pcW = "deleteRef"
    /\ \E res \in DeleteOutcomes(rewriteBranches[sweepIdx]) :
      /\ sweepCalls' = Append(sweepCalls,
                             SweepCall("deleteRef", rewriteBranches[sweepIdx].name, res))
      /\ IF res = OK
        THEN /\ deletedRefs' = deletedRefs \cup {rewriteBranches[sweepIdx].name}
             /\ sweepLog' = sweepLog \cup
                    {SweepLogged("info: Deleted old rewrite branch",
                                 rewriteBranches[sweepIdx].name)}
             /\ UNCHANGED sweepFailed
             /\ NextBranch
        ELSE /\ CatchSweep
             /\ UNCHANGED <<deletedRefs, sweepIdx>>
    /\ UNCHANGED <<repoBranches, maxAgeDays, cutoffDate, rewriteBranches, commitDate>>

\* deleteRef and its own catch (lines 359-368).
DeleteRef ==
    /\ pcW = "deleteRef"
    /\ \E res \in DeleteOutcomes(rewriteBranches[sweepIdx]) :
      /\ sweepCalls' = Append(sweepCalls,
                             SweepCall("deleteRef", rewriteBranches[sweepIdx].name, res))
      /\ IF res = OK
        THEN /\ deletedRefs' = deletedRefs \cup {rewriteBranches[sweepIdx].name}
             /\ sweepLog' = sweepLog \cup
                    {SweepLogged("info: Deleted old rewrite branch",
                                 rewriteBranches[sweepIdx].name)}
             /\ UNCHANGED sweepFailed
        ELSE /\ sweepLog' = sweepLog \cup
                    {SweepLogged("warning: Failed to delete branch",
                                 rewriteBranches[sweepIdx].name)}
             /\ sweepFailed' = TRUE
             /\ UNCHANGED deletedRefs
    /\ NextBranch
    /\ UNCHANGED <<repoBranches, maxAgeDays, cutoffDate, rewriteBranches, commitDate>>

\* The branches the clean-up is to delete: those whose name starts with
\* the rewrite prefix and whose last commit is strictly older than the
\* window.
OldRewriteBranches ==
    {repoBranches[i].name : i \in
        {j \in 1..Len(repoBranches) :
            /\ StartsWith(repoBranches[j].name, RewritePrefix)
            /\ Before(repoBranches[j].date, DateOf(Today - maxAgeDays))}}

\* C20: when the clean-up has ended and none of its remote calls failed,
\* the branches deleted are exactly the branches whose name starts with
\* acrolinx-rewrite- and whose last commit is strictly older than now minus
\* the window.
C20_DeletesExactlyOldRewriteBranches ==
    (pcW = "done" /\ ~sweepFailed) => deletedRefs = OldRewriteBranches

\* C20, the half that holds: no other branch is ever deleted (no branch
\* that is not a rewrite branch, no rewrite branch with a last commit on or
\* after the cutoff or without a date).
C20_NeverDeletesOtherBranches == deletedRefs \subseteq OldRewriteBranches

\* C20 for a repository whose branches fit in one page of listBranches.
C20_ExactWithinFirstPage ==
    (pcW = "done" /\ ~sweepFailed /\ Len(repoBranches) <= PerPage) =>
        deletedRefs = OldRewriteBranches

\* A clean-up without a failed call has deleted a branch and kept a rewrite
\* branch whose last commit is exactly as old as the window.
C20_DeletedAndKept ==
    /\ pcW = "done" /\ ~sweepFailed /\ Len(repoBranches) <= PerPage
    /\ maxAgeDays = 7
    /\ deletedRefs # {}
    /\ \E i \in 1..Len(repoBranches) :
          /\ StartsWith(repoBranches[i].name, RewritePrefix)
          /\ repoBranches[i].date = DateOf(Today - 7)
          /\ repoBranches[i].name \notin deletedRefs

\* The calls of the clean-up with the given operation.
SweepCallsOf(op) == {k \in 1..Len(sweepCalls) : sweepCalls[k].op = op}

\* The clean-up has returned to its caller (it has no path that throws:
\* every call is inside the try of lines 336-373).
SweepReturned == pcW = "done"

\* The outer catch was entered.
SweepAborted ==
    SweepLogged("error: Failed to cleanup old rewrite branches", <<>>) \in sweepLog

\* The branches of the listing whose last commit is older than the cutoff.
ExpiredListed ==
    {i \in 1..Len(rewriteBranches) : Before(rewriteBranches[i].date, cutoffDate)}

\* C21: when the clean-up has returned and neither the listing nor a commit
\* read failed, every expired rewrite branch of the listing got exactly one
\* delete attempt, whatever the outcome of the other attempts, and the
\* outer catch was not entered; every failed attempt is logged as a warning
\* that names the branch, and right after it the loop is at the next
\* branch, or the clean-up has returned if there is none.
C21_FailedDeletionStopsNothing ==
    /\ \A k \in SweepCallsOf("deleteRef") :
           sweepCalls[k].status # OK =>
               /\ SweepLogged("warning: Failed to delete branch", sweepCalls[k].ref) \in sweepLog
               /\ k = Len(sweepCalls) =>
                      /\ ~SweepAborted
                      /\ pcW = IF sweepIdx > Len(rewriteBranches) THEN "done" ELSE "getCommit"
    /\ (/\ SweepReturned
        /\ \A k \in SweepCallsOf("listBranches") \cup SweepCallsOf("getCommit") :
               sweepCalls[k].status = OK) =>
           /\ ~SweepAborted
           /\ \A i \in ExpiredListed :
                  Cardinality({k \in SweepCallsOf("deleteRef") :
                                  sweepCalls[k].ref = rewriteBranches[i].name}) = 1

\* A clean-up that returned after a failed deletion followed by the
\* deletion of another branch.
C21_Witness ==
    /\ SweepReturned
    /\ ~SweepAborted
    /\ \E k, l \in SweepCallsOf("deleteRef") :
          /\ k < l
          /\ sweepCalls[k].status # OK
          /\ sweepCalls[l].status = OK
          /\ sweepCalls[l].ref \in deletedRefs

\* C22: when the listBranches call failed, it is the only call of the
\* clean-up (no getCommit, no deleteRef), the failure is logged, nothing is
\* deleted and the clean-up has returned.
C22_FailedListingEndsSweep ==
    (\E k \in SweepCallsOf("listBranches") : sweepCalls[k].status # OK) =>
        /\ Len(sweepCalls) = 1
        /\ SweepAborted
        /\ deletedRefs = {}
        /\ SweepReturned

\* A failed listing of a repository that holds an expired, unprotected
\* rewrite branch.
C22_Witness ==
    /\ SweepReturned
    /\ Len(sweepCalls) = 1
    /\ sweepCalls[1].status # OK
    /\ \E i \in 1..Len(repoBranches) :
          /\ IsRewriteBranch(repoBranches[i])
          /\ ~repoBranches[i].protected
          /\ Before(repoBranches[i].date, DateOf(Today - maxAgeDays))

\* C37: in the changed-lines version no createReview call is issued,
\* whatever suggestions were passed in and whatever lines the change
\* request added: the run ends with the message that there are no
\* suggestions for added or modified lines.
C37_ChangedLinesVersionPostsNothing ==
    batchVersion = "changedLines" =>
        /\ ~reviewCall.issued
        /\ pcB = "done" =>
               Logged("info: No suggestions for added or modified lines in this PR", 0)
                   \in batchLog

C37_Witness ==
    /\ batchVersion = "changedLines"
    /\ pcB = "done"
    /\ Len(pendingCreates) > 0

\* C36: a failed getCommit is the last call of the clean-up: the outer
\* catch logs the failure and the clean-up has returned; no call was issued
\* for a branch later in the listing, and the branches deleted are those
\* deleted before the failure.
C36_FailedCommitReadEndsSweep ==
    \A k \in SweepCallsOf("getCommit") :
        sweepCalls[k].status # OK =>
            /\ k = Len(sweepCalls)
            /\ SweepReturned
            /\ SweepAborted
            /\ sweepCalls[k].ref = rewriteBranches[sweepIdx].name
            /\ \A i \in (sweepIdx + 1)..Len(rewriteBranches) :
                   \A j \in 1..Len(sweepCalls) :
                       sweepCalls[j].ref # rewriteBranches[i].name
            /\ deletedRefs =
                   {sweepCalls[j].ref : j \in {h \in SweepCallsOf("deleteRef") :
                                                  h < k /\ sweepCalls[h].status = OK}}

\* The read failed after a deletion, with an expired branch still to come.
C36_Witness ==
    /\ SweepReturned
    /\ sweepCalls # <<>>
    /\ sweepCalls[Len(sweepCalls)].op = "getCommit"
    /\ sweepCalls[Len(sweepCalls)].status # OK
    /\ deletedRefs # {}
    /\ \E i \in ExpiredListed : i > sweepIdx

-----------------------------------------------------------------------------
(* applyRewrittenFiles with its requests in flight: each remote call is    *)
(* issued in one step and settles in a later one                           *)

\* Bound: the number of rewritten files.
MaxApplyFiles == 3

ApplyPaths == {"a.md", "b.md", "c.md"}

\* The rewritten files: pairwise distinct paths.
ApplyLists ==
    {fs \in UNION {[1..n -> ApplyPaths] : n \in 0..MaxApplyFiles} :
        \A i, j \in 1..Len(fs) : i # j => fs[i] # fs[j]}

ApplyStart ==
    /\ applyFiles \in ApplyLists
    /\ applyIdx = 1
    /\ applySha = 0
    /\ onBranch \in [ApplyPaths -> {0, HeadBlob}]
    /\ requests = <<>>
    /\ pcA = IF applyFiles = <<>> THEN "returned" ELSE "lookup"

Unsettled == {k \in 1..Len(requests) : ~requests[k].settled}

\* The write is issued and not awaited: the loop goes on to the next file.
IssueWriteNotAwaited ==
    /\ pcA = "write"
    /\ requests' = Append(requests, [op |-> "createOrUpdateFileContents",
                                     path |-> applyFiles[applyIdx], sha |-> applySha,
                                     settled |-> FALSE])
    /\ applyIdx' = applyIdx + 1
    /\ pcA' = IF applyIdx = Len(applyFiles) THEN "returned" ELSE "lookup"
    /\ UNCHANGED <<applyFiles, applySha, onBranch>>

\* octokit.rest.repos.getContent is called (lines 186-195).
IssueGetContent ==
    /\ pcA = "lookup"
    /\ requests' = Append(requests, [op |-> "getContent", path |-> applyFiles[applyIdx],
                                     sha |-> 0, settled |-> FALSE])
    /\ pcA' = "awaitLookup"
    /\ UNCHANGED <<applyFiles, applyIdx, applySha, onBranch>>

\* The await of line 190 resumes: fileSha is set, or the catch of lines
\* 206-211 leaves it undefined.
SettleGetContent ==
    /\ pcA = "awaitLookup"
    /\ \E k \in Unsettled :
        /\ requests[k].op = "getContent"
        /\ requests' = [requests EXCEPT ![k].settled = TRUE]
        /\ \E res \in {OK, 404, 500} :
            /\ res = OK => onBranch[requests[k].path] # 0
            /\ res = 404 => onBranch[requests[k].path] = 0
            /\ applySha' = IF res = OK THEN onBranch[requests[k].path] ELSE 0
    /\ pcA' = "write"
    /\ UNCHANGED <<applyFiles, applyIdx, onBranch>>

\* octokit.rest.repos.createOrUpdateFileContents is called (lines 213-222).
IssueWrite ==
    /\ pcA = "write"
    /\ requests' = Append(requests, [op |-> "createOrUpdateFileContents",
                                     path |-> applyFiles[applyIdx], sha |-> applySha,
                                     settled |-> FALSE])
    /\ pcA' = "awaitWrite"
    /\ UNCHANGED <<applyFiles, applyIdx, applySha, onBranch>>

\* The await of line 214 resumes: the loop goes on to the next file, or the
\* error is re-thrown by the catch of lines 226-229.
SettleWrite ==
    /\ pcA = "awaitWrite"
    /\ \E k \in Unsettled :
        /\ requests[k].op = "createOrUpdateFileContents"
        /\ requests' = [requests EXCEPT ![k].settled = TRUE]
        /\ \E res \in {OK, 409, 500} :
            /\ res = OK => onBranch[requests[k].path] = requests[k].sha
            /\ res = 409 => onBranch[requests[k].path] # requests[k].sha
            /\ IF res = OK
               THEN /\ onBranch' = [onBranch EXCEPT ![requests[k].path] = RewrittenBlob]
                    /\ applyIdx' = applyIdx + 1
                    /\ pcA' = IF applyIdx = Len(applyFiles) THEN "returned" ELSE "lookup"
               ELSE /\ pcA' = "thrown"
                    /\ UNCHANGED <<onBranch, applyIdx>>
    /\ UNCHANGED <<applyFiles, applySha>>

\* C32: at any time at most one request of applyRewrittenFiles is in
\* flight, and it is the last one issued: the write of a file is issued
\* after its lookup has settled, and the lookup and the write of the next
\* file only after the write of the file before has settled.
C32_OneWriteInFlight ==
    /\ Cardinality(Unsettled) <= 1
    /\ \A k \in Unsettled : k = Len(requests)
    /\ \A k \in 1..Len(requests) :
           requests[k].op = (IF k % 2 = 1 THEN "getContent"
                             ELSE "createOrUpdateFileContents")
           /\ requests[k].path = applyFiles[(k + 1) \div 2]

\* Three files were looked up and written, one after the other.
C32_Witness ==
    /\ pcA = "returned"
    /\ Len(applyFiles) = 3
    /\ Len(requests) = 6
    /\ Unsettled = {}

-----------------------------------------------------------------------------
(* analyzeFilesBatch and the timer that reports the progress of its batch  *)

\* Bounds: the files of a call, and the runs of the timer's callback.
MaxBatchFiles == 3
MaxTicks == 3

NoProgress == [completed |-> 0, failed |-> 0, total |-> 0]

AnalyzeStart ==
    /\ batchFiles \in 0..MaxBatchFiles
    /\ fileContents \in 0..batchFiles
    /\ batchPromise = "none"
    /\ progress = NoProgress
    /\ progressInterval = FALSE
    /\ ticks = 0
    /\ tickedAfterReturn = FALSE
    /\ analysisResults = 0
    /\ pcN = "start"

\* The call up to the await of the batch promise (lines 62-116): the early
\* returns, styleBatchRewrites, setInterval.
StartBatch ==
    /\ pcN = "start"
    /\ IF batchFiles = 0 \/ fileContents = 0
       THEN /\ pcN' = "returned"
            /\ UNCHANGED <<batchPromise, progress, progressInterval>>
       ELSE /\ batchPromise' = "pending"
            /\ progress' = [NoProgress EXCEPT !.total = fileContents]
            /\ progressInterval' = TRUE
            /\ pcN' = "awaiting"
    /\ UNCHANGED <<batchFiles, fileContents, ticks, tickedAfterReturn, analysisResults>>

\* The batch finishes one of its requests.
RequestSettles ==
    /\ batchPromise = "pending"
    /\ progress.completed + progress.failed < progress.total
    /\ \/ progress' = [progress EXCEPT !.completed = @ + 1]
       \/ progress' = [progress EXCEPT !.failed = @ + 1]
    /\ UNCHANGED <<batchFiles, fileContents, batchPromise, progressInterval, ticks,
                   tickedAfterReturn, analysisResults, pcN>>

\* The callback of setInterval runs (lines 103-114): it runs every two
\* seconds for as long as the timer is not cleared.
ProgressTick ==
    /\ progressInterval
    /\ ticks < MaxTicks
    /\ ticks' = ticks + 1
    /\ tickedAfterReturn' = (tickedAfterReturn \/ pcN = "returned")
    /\ UNCHANGED <<batchFiles, fileContents, batchPromise, progress, progressInterval,
                   analysisResults, pcN>>

\* The batch promise resolves: clearInterval, the results are collected
\* and returned (lines 116-152).
BatchResolves ==
    /\ pcN = "awaiting"
    /\ progress.completed + progress.failed = progress.total
    /\ batchPromise' = "resolved"
    /\ progressInterval' = FALSE
    /\ analysisResults' = progress.completed
    /\ pcN' = "returned"
    /\ UNCHANGED <<batchFiles, fileContents, progress, ticks, tickedAfterReturn>>

\* The batch promise rejects: the await throws into the catch of lines
\* 153-156, which logs the error and returns []; progressInterval is a
\* constant of the try block and clearInterval is not reached.
BatchRejects ==
    /\ pcN = "awaiting"
    /\ batchPromise' = "rejected"
    /\ analysisResults' = 0
    /\ pcN' = "returned"
    /\ UNCHANGED <<batchFiles, fileContents, progress, progressInterval, ticks,
                   tickedAfterReturn>>

\* C39: when analyzeFilesBatch has returned, its progress timer is not
\* running, whether the batch promise resolved or rejected.
C39_NoTimerAfterReturn ==
    pcN = "returned" => ~progressInterval

\* C39 for the calls whose batch promise resolved, and those that returned
\* before a batch was started.
C39_HoldsUnlessRejected ==
    (pcN = "returned" /\ batchPromise # "rejected") =>
        ~progressInterval /\ ~tickedAfterReturn

\* The batch promise rejected; the callback has run after the return.
C39_TimerRunsAfterRejection ==
    /\ pcN = "returned"
    /\ batchPromise = "rejected"
    /\ progressInterval
    /\ tickedAfterReturn

-----------------------------------------------------------------------------
(* The specifications: one per operation under study; the state of the     *)
(* operations a specification does not run is held fixed.                  *)

vars == <<synthVars, deliverVars, rewriteVars, batchVars, namingVars, applyVars, analyzeVars, sweepVars>>

\* createCommitSuggestions is not called.
SynthOff ==
    /\ filePath = "a.md"
    /\ original = <<>>
    /\ rewrite = <<>>
    /\ parts = <<>>
    /\ suggestions = <<>>
    /\ warnings = 0
    /\ pcS = "off"

\* createPRCommitSuggestions is not called.
DeliverOff ==
    /\ tokenLogin = Actor
    /\ prSuggestions = <<>>
    /\ reviews = <<>>
    /\ comments = <<>>
    /\ nextId = 1
    /\ pcD = "off"
    /\ calls = <<>>
    /\ pendingId = 0
    /\ listed = <<>>
    /\ listIdx = 0
    /\ existing = [f \in Files |-> 0]
    /\ newSuggestions = <<>>
    /\ inFlight = {}
    /\ dLog = {}
    /\ runsDone = 0
    /\ failedEver = FALSE
    /\ countAfter = <<>>

\* The rewrite pipeline is not run.
RewriteOff ==
    /\ run = [p \in Procs |-> [Idle EXCEPT !.pc = "off"]]
    /\ headSha = 1
    /\ branches = [b \in BranchNames |-> NoBranch]
    /\ pulls = <<>>
    /\ refCreates = 0
    /\ runsStarted = 0
    /\ returned = <<>>
    /\ failedR = FALSE
    /\ overlapped = FALSE

\* No review is being built.
BatchOff ==
    /\ batchVersion = "reconcile"
    /\ pendingCreates = <<>>
    /\ reviewCall = NoCall
    /\ batchLog = {}
    /\ pcB = "off"

\* No branch name is being computed.
NamingOff ==
    /\ nameCtx = [p \in Procs |-> [prNumber |-> 1, sha |-> 1, now |-> "monday",
                                  rewrittenFiles |-> <<"a.md">>]]
    /\ nameOf = [p \in Procs |-> <<>>]

SweepOff ==
    /\ repoBranches = <<>>
    /\ maxAgeDays = 7
    /\ cutoffDate = InvalidDate
    /\ rewriteBranches = <<>>
    /\ sweepIdx = 0
    /\ commitDate = InvalidDate
    /\ deletedRefs = {}
    /\ sweepLog = {}
    /\ sweepCalls = <<>>
    /\ sweepFailed = FALSE
    /\ pcW = "done"

\* applyRewrittenFiles is not called.
ApplyOff ==
    /\ applyFiles = <<>>
    /\ applyIdx = 1
    /\ applySha = 0
    /\ onBranch = [f \in ApplyPaths |-> 0]
    /\ requests = <<>>
    /\ pcA = "returned"

\* analyzeFilesBatch is not called.
AnalyzeOff ==
    /\ batchFiles = 0
    /\ fileContents = 0
    /\ batchPromise = "none"
    /\ progress = NoProgress
    /\ progressInterval = FALSE
    /\ ticks = 0
    /\ tickedAfterReturn = FALSE
    /\ analysisResults = 0
    /\ pcN = "returned"

SynthInit == SynthStart /\ DeliverOff /\ RewriteOff /\ BatchOff /\ NamingOff /\ ApplyOff /\ AnalyzeOff /\ SweepOff

SynthNext == createCommitSuggestions /\ UNCHANGED <<deliverVars, rewriteVars, batchVars, namingVars, applyVars, analyzeVars, sweepVars>>

SpecSynth == SynthInit /\ [][SynthNext]_vars

DeliverInit == DeliverStart /\ SynthOff /\ RewriteOff /\ BatchOff /\ NamingOff /\ ApplyOff /\ AnalyzeOff /\ SweepOff

DeliverNext ==
    \/ StartRun /\ UNCHANGED <<synthVars, rewriteVars, batchVars, namingVars, applyVars, analyzeVars, sweepVars>>
    \/ ReposGet /\ UNCHANGED <<synthVars, rewriteVars, batchVars, namingVars, applyVars, analyzeVars, sweepVars>>
    \/ PullsGet /\ UNCHANGED <<synthVars, rewriteVars, batchVars, namingVars, applyVars, analyzeVars, sweepVars>>
    \/ FindExistingPendingReview /\ UNCHANGED <<synthVars, rewriteVars, batchVars, namingVars, applyVars, analyzeVars, sweepVars>>
    \/ SubmitPendingReview /\ UNCHANGED <<synthVars, rewriteVars, batchVars, namingVars, applyVars, analyzeVars, sweepVars>>
    \/ FindExistingSuggestions /\ UNCHANGED <<synthVars, rewriteVars, batchVars, namingVars, applyVars, analyzeVars, sweepVars>>
    \/ ListReviewComments /\ UNCHANGED <<synthVars, rewriteVars, batchVars, namingVars, applyVars, analyzeVars, sweepVars>>
    \/ Classify /\ UNCHANGED <<synthVars, rewriteVars, batchVars, namingVars, applyVars, analyzeVars, sweepVars>>
    \/ UpdateSuggestionComment /\ UNCHANGED <<synthVars, rewriteVars, batchVars, namingVars, applyVars, analyzeVars, sweepVars>>
    \/ CreateReview /\ UNCHANGED <<synthVars, rewriteVars, batchVars, namingVars, applyVars, analyzeVars, sweepVars>>
    \/ ReturnFromRun /\ UNCHANGED <<synthVars, rewriteVars, batchVars, namingVars, applyVars, analyzeVars, sweepVars>>

SpecDeliver == DeliverInit /\ [][DeliverNext]_vars

RewriteInit == RewriteStart /\ SynthOff /\ DeliverOff /\ BatchOff /\ NamingOff /\ ApplyOff /\ AnalyzeOff /\ SweepOff

RewriteNext ==
    \/ \E p \in Procs : StartRewrite(p) /\ UNCHANGED <<synthVars, deliverVars, batchVars, namingVars, applyVars, analyzeVars, sweepVars>>
    \/ \E p \in Procs : CheckBranchExists(p) /\ UNCHANGED <<synthVars, deliverVars, batchVars, namingVars, applyVars, analyzeVars, sweepVars>>
    \/ \E p \in Procs : RewriteFiles(p) /\ UNCHANGED <<synthVars, deliverVars, batchVars, namingVars, applyVars, analyzeVars, sweepVars>>
    \/ \E p \in Procs : GetHeadBranch(p) /\ UNCHANGED <<synthVars, deliverVars, batchVars, namingVars, applyVars, analyzeVars, sweepVars>>
    \/ \E p \in Procs : CreateBranchFromBase(p) /\ UNCHANGED <<synthVars, deliverVars, batchVars, namingVars, applyVars, analyzeVars, sweepVars>>
    \/ \E p \in Procs : UpdateBranchToLatest(p) /\ UNCHANGED <<synthVars, deliverVars, batchVars, namingVars, applyVars, analyzeVars, sweepVars>>
    \/ \E p \in Procs : GetContent(p) /\ UNCHANGED <<synthVars, deliverVars, batchVars, namingVars, applyVars, analyzeVars, sweepVars>>
    \/ \E p \in Procs : CreateOrUpdateFileContents(p) /\ UNCHANGED <<synthVars, deliverVars, batchVars, namingVars, applyVars, analyzeVars, sweepVars>>
    \/ \E p \in Procs : ListPulls(p) /\ UNCHANGED <<synthVars, deliverVars, batchVars, namingVars, applyVars, analyzeVars, sweepVars>>
    \/ \E p \in Procs : CreatePull(p) /\ UNCHANGED <<synthVars, deliverVars, batchVars, namingVars, applyVars, analyzeVars, sweepVars>>
    \/ \E p \in Procs : FinishRewrite(p) /\ UNCHANGED <<synthVars, deliverVars, batchVars, namingVars, applyVars, analyzeVars, sweepVars>>
    \/ \E p \in Procs : Interrupt(p) /\ UNCHANGED <<synthVars, deliverVars, batchVars, namingVars, applyVars, analyzeVars, sweepVars>>
    \/ PushToHead /\ UNCHANGED <<synthVars, deliverVars, batchVars, namingVars, applyVars, analyzeVars, sweepVars>>

SpecRewrite == RewriteInit /\ [][RewriteNext]_vars

BatchInit == BatchStart /\ SynthOff /\ DeliverOff /\ RewriteOff /\ NamingOff /\ ApplyOff /\ AnalyzeOff /\ SweepOff

BatchNext ==
    \/ CreateNewSuggestions /\ UNCHANGED <<synthVars, deliverVars, rewriteVars, namingVars, applyVars, analyzeVars, sweepVars>>
    \/ CreateForChangedLines /\ UNCHANGED <<synthVars, deliverVars, rewriteVars, namingVars, applyVars, analyzeVars, sweepVars>>
    \/ CreateAllSuggestions /\ UNCHANGED <<synthVars, deliverVars, rewriteVars, namingVars, applyVars, analyzeVars, sweepVars>>

SpecBatch == BatchInit /\ [][BatchNext]_vars

NamingInit == NamingStart /\ SynthOff /\ DeliverOff /\ RewriteOff /\ BatchOff /\ ApplyOff /\ AnalyzeOff /\ SweepOff

NamingNext ==
    \/ \E p \in Procs : ComputeBranchName(p) /\ UNCHANGED <<synthVars, deliverVars, rewriteVars, batchVars, applyVars, analyzeVars, sweepVars>>

SpecNaming == NamingInit /\ [][NamingNext]_vars

ApplyInit == ApplyStart /\ SynthOff /\ DeliverOff /\ RewriteOff /\ BatchOff /\ NamingOff /\ AnalyzeOff /\ SweepOff

ApplyNext ==
    \/ IssueGetContent /\ UNCHANGED <<synthVars, deliverVars, rewriteVars, batchVars, namingVars, analyzeVars, sweepVars>>
    \/ SettleGetContent /\ UNCHANGED <<synthVars, deliverVars, rewriteVars, batchVars, namingVars, analyzeVars, sweepVars>>
    \/ IssueWrite /\ UNCHANGED <<synthVars, deliverVars, rewriteVars, batchVars, namingVars, analyzeVars, sweepVars>>
    \/ SettleWrite /\ UNCHANGED <<synthVars, deliverVars, rewriteVars, batchVars, namingVars, analyzeVars, sweepVars>>

SpecApply == ApplyInit /\ [][ApplyNext]_vars

AnalyzeInit == AnalyzeStart /\ SynthOff /\ DeliverOff /\ RewriteOff /\ BatchOff /\ NamingOff /\ ApplyOff /\ SweepOff

AnalyzeNext ==
    \/ StartBatch /\ UNCHANGED <<synthVars, deliverVars, rewriteVars, batchVars, namingVars, applyVars, sweepVars>>
    \/ RequestSettles /\ UNCHANGED <<synthVars, deliverVars, rewriteVars, batchVars, namingVars, applyVars, sweepVars>>
    \/ ProgressTick /\ UNCHANGED <<synthVars, deliverVars, rewriteVars, batchVars, namingVars, applyVars, sweepVars>>
    \/ BatchResolves /\ UNCHANGED <<synthVars, deliverVars, rewriteVars, batchVars, namingVars, applyVars, sweepVars>>
    \/ BatchRejects /\ UNCHANGED <<synthVars, deliverVars, rewriteVars, batchVars, namingVars, applyVars, sweepVars>>

SpecAnalyze == AnalyzeInit /\ [][AnalyzeNext]_vars

SweepInit == SweepStart /\ SynthOff /\ DeliverOff /\ RewriteOff /\ BatchOff /\ NamingOff /\ ApplyOff /\ AnalyzeOff

SweepNext ==
    \/ ListBranches /\ UNCHANGED <<synthVars, deliverVars, rewriteVars, batchVars, namingVars, applyVars, analyzeVars>>
    \/ GetCommit /\ UNCHANGED <<synthVars, deliverVars, rewriteVars, batchVars, namingVars, applyVars, analyzeVars>>
    \/ DeleteRef /\ UNCHANGED <<synthVars, deliverVars, rewriteVars, batchVars, namingVars, applyVars, analyzeVars>>

SpecSweep == SweepInit /\ [][SweepNext]_vars

=============================================================================
